---- MODULE Spec2Model ----
(***************************************************************************)
(* Model of blockdreamer: the attestation-list distance (src/distance.rs), *)
(* the closest-match classifier and the per-slot orchestrator loop         *)
(* (src/main.rs), and the sink dispatcher's entry check (src/post.rs).     *)
(***************************************************************************)
EXTENDS Integers, Sequences, FiniteSets, TLC

(***************************************************************************)
(* Bounds of the model.                                                    *)
(***************************************************************************)
\* Longest attestation list drawn as an input of the pairwise distance.
MaxAtts == 2
\* Longest aggregation bitfield drawn for the distance of two attestations.
MaxBitLen == 2
\* Longest attestation list drawn as an input of the delta lists.
MaxDeltaAtts == 3
\* Longest attestation list drawn as an input of the triangle check.
MaxTriAtts == 2

\* The slot clock runs from slot 1 up to this slot.
MaxSlot == 3
\* Largest distance drawn as an input of the classifier.
MaxDistance == 3
\* Last slot of the runs that fill and prune the window.
MaxWindowSlot == 11
\* Last slot of the runs that compare the blocks of a slot pairwise.
MaxPairwiseSlot == 2
MaxIterationSlot == 4
\* Largest attestation_rewards.total drawn in a response.
MaxReward == 1

\* AttestationData values (distance.rs compares them only for equality).
AttestationDatas == {"d1", "d2"}
\* Lengths of the aggregation bitfields that are drawn.
BitLens == {0, 1}

(***************************************************************************)
(* Program constants.                                                      *)
(***************************************************************************)
INDEL_COST == 128
SIGNIFICANCE_NUMERATOR == 2
SIGNIFICANCE_DENOM == 1
NUM_SLOTS_IN_MEMORY == 8

\* Node names, ordered as strings are: "n1" < "n2" < "n3"; a name is modelled
\* by its index.
NodeNames == {1, 2, 3}
\* Node labels (implementation families).
NodeLabels == {"X", "Y"}

\* The configurations drawn for the orchestrator: the enabled nodes in
\* configuration order (none, one, two with different or equal labels, two of
\* the same name) with the post endpoints (none, one, two).
NoNodes == <<>>
OneNode == <<[name |-> 1, label |-> "X"]>>
TwoNodes == <<[name |-> 1, label |-> "X"], [name |-> 2, label |-> "Y"]>>
TwoNodesOneLabel == <<[name |-> 1, label |-> "X"], [name |-> 2, label |-> "X"]>>
TwoNodesOneName == <<[name |-> 1, label |-> "X"], [name |-> 1, label |-> "Y"]>>
ThreeNodes == <<[name |-> 2, label |-> "X"], [name |-> 1, label |-> "Y"], [name |-> 3, label |-> "X"]>>

Configs ==
    {[nodes |-> NoNodes, post_endpoints |-> <<>>],
     [nodes |-> NoNodes, post_endpoints |-> <<"e1">>],
     [nodes |-> OneNode, post_endpoints |-> <<>>],
     [nodes |-> OneNode, post_endpoints |-> <<"e1">>],
     [nodes |-> OneNode, post_endpoints |-> <<"e1", "e2">>],
     [nodes |-> TwoNodes, post_endpoints |-> <<>>],
     [nodes |-> TwoNodes, post_endpoints |-> <<"e1">>],
     [nodes |-> TwoNodesOneLabel, post_endpoints |-> <<>>],
     [nodes |-> TwoNodesOneName, post_endpoints |-> <<"e1">>]}

(***************************************************************************)
(* Values.  A BitList is its length and the set of its set bit positions   *)
(* (0-based, all below the length); two BitLists are equal iff both agree. *)
(* An Attestation is its data and its aggregation bits (the signature is   *)
(* never read by the distance).                                            *)
(***************************************************************************)
BitLists == UNION {{[len |-> n, bits |-> s] : s \in SUBSET (0 .. n - 1)} : n \in BitLens}

Attestations == [data : AttestationDatas, aggregation_bits : BitLists]

\* Attestations of one bitfield length only (the largest drawn).
FixedLenAttestations ==
    {a \in Attestations : \A n \in BitLens : n <= a.aggregation_bits.len}

\* The attestations drawn for the triangle check: every bitfield of the one
\* length with the first AttestationData, the bitfields with a set bit with
\* the others.
TriAttestations ==
    {a \in FixedLenAttestations :
        a.data = "d1" \/ a.aggregation_bits.bits # {}}

RECURSIVE SeqsUpTo(_, _)
SeqsUpTo(S, n) ==
    IF n = 0 THEN {<<>>}
    ELSE LET shorter == SeqsUpTo(S, n - 1)
         IN  shorter \cup {Append(s, e) : s \in {t \in shorter : Len(t) = n - 1}, e \in S}

Max(a, b) == IF a >= b THEN a ELSE b

(***************************************************************************)
(* distance.rs                                                             *)
(***************************************************************************)
num_set_bits(b) == Cardinality(b.bits)

\* BitList::difference: the bits of a that are not set in b; b is shorter or
\* longer than a without effect on the bits a keeps.
difference(a, b) == [len |-> a.len, bits |-> a.bits \ b.bits]

\* Mutant: only the bits of self that other lacks are counted.
AttestationDelta_one_sided(self, other) ==
    IF self.data # other.data
    THEN {}
    ELSE {num_set_bits(difference(self.aggregation_bits, other.aggregation_bits))}

\* Attestation::delta: an Option, modelled as a set with at most one element.
AttestationDelta(self, other) ==
    IF self.data # other.data
    THEN {}
    ELSE LET agg1_unique == difference(self.aggregation_bits, other.aggregation_bits)
             agg2_unique == difference(other.aggregation_bits, self.aggregation_bits)
         IN  {num_set_bits(agg1_unique) + num_set_bits(agg2_unique)}

\* Distance::distance for Attestation (delta_to_distance is the identity on usize).
AttestationDistance(self, other) == AttestationDelta(self, other)

\* .expect("attestations are comparable")
Expect(opt) == CHOOSE v \in opt : TRUE

\* The (index, attestation) pairs of atts whose data is d, in list order;
\* indices are 0-based as enumerate() yields them.
RECURSIVE GroupOf(_, _, _)
GroupOf(atts, d, i) ==
    IF i > Len(atts) THEN <<>>
    ELSE IF atts[i].data = d
         THEN <<[index |-> i - 1, att |-> atts[i]]>> \o GroupOf(atts, d, i + 1)
         ELSE GroupOf(atts, d, i + 1)

index_by_attestation_data(atts) ==
    [d \in {atts[i].data : i \in DOMAIN atts} |-> GroupOf(atts, d, 1)]

\* Mutant: an InsertRight is charged its set bits only.
total_distance_right_free(delta) ==
    IF delta.kind = "Modify"
    THEN delta.pos_distance + delta.bit_distance
    ELSE IF delta.kind = "InsertLeft"
         THEN delta.num_set_bits + INDEL_COST
         ELSE delta.num_set_bits

\* Mutant: no insert is charged INDEL_COST.
total_distance_no_indel(delta) ==
    IF delta.kind = "Modify"
    THEN delta.pos_distance + delta.bit_distance
    ELSE delta.num_set_bits

total_distance(delta) ==
    IF delta.kind = "Modify"
    THEN delta.pos_distance + delta.bit_distance
    ELSE delta.num_set_bits + INDEL_COST

abs_diff(x, y) == IF x >= y THEN x - y ELSE y - x

\* One cell of the n*n cost matrix of compute_matching_att_deltas.
MatrixCell(atts1, atts2, i, j) ==
    IF i <= Len(atts1) /\ j <= Len(atts2)
    THEN abs_diff(atts1[i].index, atts2[j].index)
         + Expect(AttestationDistance(atts1[i].att, atts2[j].att))
    ELSE IF i <= Len(atts1)
         THEN num_set_bits(atts1[i].att.aggregation_bits) + INDEL_COST
         ELSE num_set_bits(atts2[j].att.aggregation_bits) + INDEL_COST

dist_matrix(atts1, atts2) ==
    LET n == Max(Len(atts1), Len(atts2))
    IN  [i \in 1 .. n |-> [j \in 1 .. n |-> MatrixCell(atts1, atts2, i, j)]]

Assignments(n) ==
    {f \in [1 .. n -> 1 .. n] : \A i, j \in 1 .. n : i # j => f[i] # f[j]}

RECURSIVE AssignmentCostFrom(_, _, _)
AssignmentCostFrom(matrix, f, i) ==
    IF i > Len(matrix) THEN 0
    ELSE matrix[i][f[i]] + AssignmentCostFrom(matrix, f, i + 1)

AssignmentCost(matrix, f) == AssignmentCostFrom(matrix, f, 1)

\* Mutant: the solver returns any perfect matching.
kuhn_munkres_any(matrix) == Assignments(Len(matrix))

\* kuhn_munkres_min returns a perfect matching of minimum total weight; which
\* one, when several have it, is the solver's choice: every minimum is an outcome.
kuhn_munkres_min(matrix) ==
    LET all == Assignments(Len(matrix))
    IN  {f \in all : \A g \in all : AssignmentCost(matrix, f) <= AssignmentCost(matrix, g)}

\* Mutant: an insertion on the right is pushed as one on the left.
DeltaOfPair_inserts_left(atts1, atts2, i, j) ==
    IF i <= Len(atts1) /\ j <= Len(atts2)
    THEN [kind |-> "Modify",
          left |-> atts1[i].index,
          right |-> atts2[j].index,
          pos_distance |-> abs_diff(atts1[i].index, atts2[j].index),
          bit_distance |-> Expect(AttestationDistance(atts1[i].att, atts2[j].att))]
    ELSE IF i <= Len(atts1)
         THEN [kind |-> "InsertLeft",
               index |-> atts1[i].index,
               num_set_bits |-> num_set_bits(atts1[i].att.aggregation_bits)]
         ELSE [kind |-> "InsertLeft",
               index |-> atts2[j].index,
               num_set_bits |-> num_set_bits(atts2[j].att.aggregation_bits)]

\* The delta pushed for row i of the solution.
DeltaOfPair(atts1, atts2, i, j) ==
    IF i <= Len(atts1) /\ j <= Len(atts2)
    THEN [kind |-> "Modify",
          left |-> atts1[i].index,
          right |-> atts2[j].index,
          pos_distance |-> abs_diff(atts1[i].index, atts2[j].index),
          bit_distance |-> Expect(AttestationDistance(atts1[i].att, atts2[j].att))]
    ELSE IF i <= Len(atts1)
         THEN [kind |-> "InsertLeft",
               index |-> atts1[i].index,
               num_set_bits |-> num_set_bits(atts1[i].att.aggregation_bits)]
         ELSE [kind |-> "InsertRight",
               index |-> atts2[j].index,
               num_set_bits |-> num_set_bits(atts2[j].att.aggregation_bits)]

\* compute_matching_att_deltas: the possible results, one per minimum matching.
compute_matching_att_deltas(atts1, atts2) ==
    LET n == Max(Len(atts1), Len(atts2))
    IN  {[i \in 1 .. n |-> DeltaOfPair(atts1, atts2, i, mapping[i])] :
            mapping \in kuhn_munkres_min(dist_matrix(atts1, atts2))}

\* Mutant: the key has no handedness.
SortKey_no_handedness(delta) ==
    IF delta.kind = "Modify" THEN <<delta.left, delta.right, 0>>
    ELSE <<delta.index, delta.index, 0>>

\* The sort key of sort_deltas, compared lexicographically.
SortKey(delta) ==
    IF delta.kind = "Modify" THEN <<delta.left, delta.right, 0>>
    ELSE IF delta.kind = "InsertLeft" THEN <<delta.index, delta.index, 0>>
    ELSE <<delta.index, delta.index, 1>>

KeyLess(k1, k2) ==
    \/ k1[1] < k2[1]
    \/ k1[1] = k2[1] /\ k1[2] < k2[2]
    \/ k1[1] = k2[1] /\ k1[2] = k2[2] /\ k1[3] < k2[3]

RECURSIVE InsertSorted(_, _)
InsertSorted(sorted, delta) ==
    IF sorted = <<>> THEN <<delta>>
    ELSE IF KeyLess(SortKey(delta), SortKey(Head(sorted)))
         THEN <<delta>> \o sorted
         ELSE <<Head(sorted)>> \o InsertSorted(Tail(sorted), delta)

RECURSIVE sort_deltas(_)
sort_deltas(deltas) ==
    IF deltas = <<>> THEN <<>>
    ELSE InsertSorted(sort_deltas(Tail(deltas)), Head(deltas))

\* The unsorted concatenations of the buckets' deltas, over the buckets in
\* keys: the HashSet att_datas is iterated in any order.
RECURSIVE BucketDeltas(_, _, _)
BucketDeltas(left_index_map, right_index_map, keys) ==
    IF keys = {} THEN {<<>>}
    ELSE UNION {LET atts1 == IF att_data \in DOMAIN left_index_map
                             THEN left_index_map[att_data] ELSE <<>>
                    atts2 == IF att_data \in DOMAIN right_index_map
                             THEN right_index_map[att_data] ELSE <<>>
                IN  {ds \o rest :
                        ds \in compute_matching_att_deltas(atts1, atts2),
                        rest \in BucketDeltas(left_index_map, right_index_map,
                                               keys \ {att_data})} :
                att_data \in keys}

\* <&[Attestation] as Distance>::delta: the possible results (always Some).
ListDelta(self, other) ==
    LET left_index_map == index_by_attestation_data(self)
        right_index_map == index_by_attestation_data(other)
        att_datas == DOMAIN left_index_map \cup DOMAIN right_index_map
    IN  {sort_deltas(ds) : ds \in BucketDeltas(left_index_map, right_index_map, att_datas)}

\* The matrices compute_matching_att_deltas builds for self and other, one
\* per bucket.
BucketMatrices(self, other) ==
    LET left_index_map == index_by_attestation_data(self)
        right_index_map == index_by_attestation_data(other)
    IN  {dist_matrix(IF d \in DOMAIN left_index_map THEN left_index_map[d] ELSE <<>>,
                     IF d \in DOMAIN right_index_map THEN right_index_map[d] ELSE <<>>) :
            d \in DOMAIN left_index_map \cup DOMAIN right_index_map}

\* kuhn_munkres_min as a function of its matrix, on the matrices given: it
\* returns one minimum matching per matrix, the same one whenever it is
\* called with the same matrix.
RECURSIVE Solvers(_)
Solvers(matrices) ==
    IF matrices = {} THEN {<<>>}
    ELSE LET matrix == CHOOSE m \in matrices : TRUE
         IN  {[m \in DOMAIN rest \cup {matrix} |-> IF m = matrix THEN mapping ELSE rest[m]] :
                rest \in Solvers(matrices \ {matrix}),
                mapping \in kuhn_munkres_min(matrix)}

\* compute_matching_att_deltas with the solver given.
MatchingDeltasWith(solver, atts1, atts2) ==
    LET n == Max(Len(atts1), Len(atts2))
        mapping == solver[dist_matrix(atts1, atts2)]
    IN  [i \in 1 .. n |-> DeltaOfPair(atts1, atts2, i, mapping[i])]

\* The unsorted concatenations of the buckets' deltas with the solver given,
\* the buckets taken in any order.
RECURSIVE BucketDeltasWith(_, _, _, _)
BucketDeltasWith(solver, left_index_map, right_index_map, keys) ==
    IF keys = {} THEN {<<>>}
    ELSE UNION {LET atts1 == IF att_data \in DOMAIN left_index_map
                             THEN left_index_map[att_data] ELSE <<>>
                    atts2 == IF att_data \in DOMAIN right_index_map
                             THEN right_index_map[att_data] ELSE <<>>
                IN  {MatchingDeltasWith(solver, atts1, atts2) \o rest :
                        rest \in BucketDeltasWith(solver, left_index_map, right_index_map,
                                                   keys \ {att_data})} :
                att_data \in keys}

\* The unsorted lists `delta` can hold before its sort, with the solver given.
UnsortedDeltasWith(solver, self, other) ==
    LET left_index_map == index_by_attestation_data(self)
        right_index_map == index_by_attestation_data(other)
    IN  BucketDeltasWith(solver, left_index_map, right_index_map,
                         DOMAIN left_index_map \cup DOMAIN right_index_map)

\* invert_delta, for one delta: the sides are swapped.
InvertOne(delta) ==
    IF delta.kind = "InsertLeft" THEN [delta EXCEPT !.kind = "InsertRight"]
    ELSE IF delta.kind = "InsertRight" THEN [delta EXCEPT !.kind = "InsertLeft"]
    ELSE [delta EXCEPT !.left = delta.right, !.right = delta.left]

\* invert_delta: every delta is inverted and the list is sorted again.
invert_delta(deltas) == sort_deltas([k \in DOMAIN deltas |-> InvertOne(deltas[k])])

RECURSIVE delta_to_distance(_)
delta_to_distance(deltas) ==
    IF deltas = <<>> THEN 0
    ELSE total_distance(Head(deltas)) + delta_to_distance(Tail(deltas))

\* Distance::distance for lists: the values it can return.
ListDistance(self, other) == {delta_to_distance(d) : d \in ListDelta(self, other)}

(***************************************************************************)
(* main.rs: the classifier (the body of `if let Some(dream_blocks)`).      *)
(***************************************************************************)
\* The vectors `distances` can be after sort_unstable_by_key(distance): the
\* entries of the map, which a HashMap yields in any order, in an order of
\* non-decreasing distance.  Entries of equal distance stay in the order the
\* map yielded them, so every order of them is an outcome.
SortedByDistance(distances) ==
    LET names == DOMAIN distances
        n == Cardinality(names)
    IN  {[i \in 1 .. n |-> [name |-> order[i], distance |-> distances[order[i]]]] :
            order \in {o \in [1 .. n -> names] :
                          /\ \A i, j \in 1 .. n : i # j => o[i] # o[j]
                          /\ \A i \in 1 .. n - 1 : distances[o[i]] <= distances[o[i + 1]]}}

\* Mutant: the gap counts only when it is strictly larger.
Significant_strict(closest_distance, second_closest_distance) ==
    second_closest_distance
        > (closest_distance * SIGNIFICANCE_NUMERATOR) \div SIGNIFICANCE_DENOM

\* The test of the `else if`.
Significant(closest_distance, second_closest_distance) ==
    second_closest_distance
        >= (closest_distance * SIGNIFICANCE_NUMERATOR) \div SIGNIFICANCE_DENOM

\* The lines the classifier prints for a sorted vector, as a sequence.
ClassifySorted(sorted, labels) ==
    LET closest == sorted[1]
        second_closest == IF Len(sorted) >= 2 THEN sorted[2] ELSE sorted[1]
        closest_label == labels[closest.name]
        second_closest_label == labels[second_closest.name]
        line(kind) == [kind |-> kind, closest |-> closest,
                       second_closest |-> second_closest,
                       closest_label |-> closest_label,
                       second_closest_label |-> second_closest_label]
    IN  IF closest_label = second_closest_label
        THEN <<line("two_closest_match")>>
        ELSE IF Significant(closest.distance, second_closest.distance)
             THEN <<line("significantly_closer")>>
             ELSE <<line("too_close_to_call")>>

\* `distances[0]` of an empty vector panics.
IndexPanic == <<[kind |-> "panic"]>>

\* The outputs the classifier can produce for a map of distances.
Classify(distances, labels) ==
    IF DOMAIN distances = {}
    THEN {IndexPanic}
    ELSE {ClassifySorted(sorted, labels) : sorted \in SortedByDistance(distances)}

(***************************************************************************)
(* Blocks.  A blinded block is modelled by its attestation list, the only  *)
(* part the block distance reads.                                          *)
(***************************************************************************)
DreamBlocks ==
    {[attestations |-> <<>>],
     [attestations |-> <<[data |-> "d1", aggregation_bits |-> [len |-> 1, bits |-> {0}]]>>]}

\* Distance of two blocks (delta, then delta_to_distance): that of their
\* attestation lists.
BlockDistance(block1, block2) == ListDistance(block1.attestations, block2.attestations)

(***************************************************************************)
(* State.                                                                  *)
(***************************************************************************)
VARIABLES
    \* inputs and results of the pairwise / triangle distance checks
    atts_x, atts_y, atts_z, dist,
    \* inputs and output of the classifier on its own
    cl_distances, cl_labels, cl_output,
    \* the arguments of one call of post_blocks with its endpoint, and what the
    \* call did together with what the server and file system answered
    post_call, post_outcome,
    \* configuration: the enabled nodes and the post endpoints, in order
    nodes, post_endpoints,
    \* main: the AtomicBool, where main is, and the exit code it returned
    shutdown_signal, main_pc, exit_code,
    \* the slot clock, and run: where it is, the deadline of its sleep, `slot`
    clock, pc, wake_at, slot,
    \* the node tasks run waits for in join_all, in node order
    handles,
    \* the window all_blocks
    all_blocks,
    \* the sink tasks spawned and not yet run, and the result of the last one run
    sink_tasks, sink_result,
    \* what the last iteration printed of the canonical and pairwise compare
    canonical_report, pairwise_report

dist_vars == <<atts_x, atts_y, atts_z, dist>>
cl_vars == <<cl_distances, cl_labels, cl_output>>
post_vars == <<post_call, post_outcome>>
config_vars == <<nodes, post_endpoints>>
main_vars == <<shutdown_signal, main_pc, exit_code>>
run_vars == <<pc, wake_at, slot, all_blocks, canonical_report, pairwise_report>>
sink_vars == <<sink_tasks, sink_result>>
orch_vars == <<config_vars, main_vars, clock, run_vars, handles, sink_vars>>

vars == <<dist_vars, cl_vars, post_vars, orch_vars>>

\* The values the variables of the other parts keep while one part runs.
DistIdle == atts_x = <<>> /\ atts_y = <<>> /\ atts_z = <<>> /\ dist = [done |-> FALSE]
ClIdle == cl_distances = <<>> /\ cl_labels = <<>> /\ cl_output = <<>>
PostIdle == post_call = <<>> /\ post_outcome = <<>>
OrchStart ==
    /\ shutdown_signal = FALSE
    /\ main_pc = "select"
    /\ exit_code = "none"
    /\ clock = 1
    /\ pc = "loop_head"
    /\ wake_at = 0
    /\ slot = 0
    /\ handles = <<>>
    /\ all_blocks = <<>>
    /\ sink_tasks = {}
    /\ sink_result = [outcome |-> "none"]
    /\ canonical_report = [kind |-> "none"]
    /\ pairwise_report = {}
OrchIdle == nodes = <<>> /\ post_endpoints = <<>> /\ OrchStart

NotComputed == [done |-> FALSE]

(***************************************************************************)
(* The distance of two attestation lists, in both directions and of each   *)
(* list to itself (tests/proptest_distance.rs, distance_symmetry_and_      *)
(* identity).                                                              *)
(***************************************************************************)
PairInputs == SeqsUpTo(Attestations, MaxAtts)

InitDistance ==
    /\ atts_x \in PairInputs
    /\ atts_y \in PairInputs
    /\ atts_z = <<>>
    /\ dist = NotComputed
    /\ ClIdle
    /\ PostIdle
    /\ OrchIdle

ComputePair ==
    /\ ~dist.done
    /\ \E xy \in ListDistance(atts_x, atts_y), yx \in ListDistance(atts_y, atts_x),
          xx \in ListDistance(atts_x, atts_x) :
            dist' = [done |-> TRUE, x_y |-> xy, y_x |-> yx, x_x |-> xx]
    /\ UNCHANGED <<atts_x, atts_y, atts_z, cl_vars, post_vars, orch_vars>>

NextDistance == ComputePair

SpecDistance == InitDistance /\ [][NextDistance]_vars

(***************************************************************************)
(* The distance of two attestations.                                       *)
(***************************************************************************)
\* The attestations drawn: every bitfield of up to MaxBitLen bits.
LongAttestations ==
    [data : AttestationDatas,
     aggregation_bits :
        UNION {{[len |-> n, bits |-> b] : b \in SUBSET (0 .. n - 1)} : n \in 0 .. MaxBitLen}]

InitAttestation ==
    /\ \E a \in LongAttestations : atts_x = <<a>>
    /\ \E b \in LongAttestations : atts_y = <<b>>
    /\ atts_z = <<>>
    /\ dist = NotComputed
    /\ ClIdle
    /\ PostIdle
    /\ OrchIdle

ComputeAttestationDistance ==
    /\ ~dist.done
    /\ dist' = [done |-> TRUE, a_b |-> AttestationDistance(atts_x[1], atts_y[1])]
    /\ UNCHANGED <<atts_x, atts_y, atts_z, cl_vars, post_vars, orch_vars>>

NextAttestation == ComputeAttestationDistance

SpecAttestation == InitAttestation /\ [][NextAttestation]_vars

(***************************************************************************)
(* The delta lists of two attestation lists, in both directions.           *)
(***************************************************************************)
\* The lists drawn: x is shorter than the longest y, and both directions
\* are computed.
DeltaInputs == SeqsUpTo(TriAttestations, MaxDeltaAtts)

InitDelta ==
    /\ atts_x \in {x \in DeltaInputs : Len(x) < MaxDeltaAtts}
    /\ atts_y \in DeltaInputs
    /\ atts_z = <<>>
    /\ dist = NotComputed
    /\ ClIdle
    /\ PostIdle
    /\ OrchIdle

\* x.delta(y) and y.delta(x) are computed by one solver, and the delta of
\* x -> y is inverted; `unsorted` is that delta before its sort.
ComputeDelta ==
    /\ ~dist.done
    /\ \E solver \in Solvers(BucketMatrices(atts_x, atts_y) \cup BucketMatrices(atts_y, atts_x)) :
         \E xy \in UnsortedDeltasWith(solver, atts_x, atts_y),
            yx \in UnsortedDeltasWith(solver, atts_y, atts_x) :
            dist' = [done |-> TRUE,
                     unsorted |-> xy,
                     x_y |-> sort_deltas(xy),
                     y_x |-> sort_deltas(yx),
                     inverted |-> invert_delta(sort_deltas(xy))]
    /\ UNCHANGED <<atts_x, atts_y, atts_z, cl_vars, post_vars, orch_vars>>

NextDelta == ComputeDelta

SpecDelta == InitDelta /\ [][NextDelta]_vars

(***************************************************************************)
(* The distances among three attestation lists (tests/proptest_distance.rs,*)
(* distance_triangle_inequality).                                          *)
(***************************************************************************)
TriInputs == SeqsUpTo(TriAttestations, MaxTriAtts)

InitTriangle ==
    /\ atts_x \in TriInputs
    /\ atts_y \in TriInputs
    /\ atts_z \in TriInputs
    /\ dist = NotComputed
    /\ ClIdle
    /\ PostIdle
    /\ OrchIdle

ComputeTriple ==
    /\ ~dist.done
    /\ \E xy \in ListDistance(atts_x, atts_y), yz \in ListDistance(atts_y, atts_z),
          xz \in ListDistance(atts_x, atts_z) :
            dist' = [done |-> TRUE, x_y |-> xy, y_z |-> yz, x_z |-> xz]
    /\ UNCHANGED <<atts_x, atts_y, atts_z, cl_vars, post_vars, orch_vars>>

NextTriangle == ComputeTriple

SpecTriangle == InitTriangle /\ [][NextTriangle]_vars

(***************************************************************************)
(* The classifier applied to a map from node name to distance, for a node  *)
(* set with its labels.                                                    *)
(***************************************************************************)
InitClassifier ==
    /\ \E names \in SUBSET NodeNames :
          /\ cl_distances \in [names -> 0 .. MaxDistance]
          /\ cl_labels \in [names -> NodeLabels]
    /\ cl_output = <<>>
    /\ DistIdle
    /\ PostIdle
    /\ OrchIdle

RunClassifier ==
    /\ cl_output = <<>>
    /\ cl_output' \in Classify(cl_distances, cl_labels)
    /\ UNCHANGED <<cl_distances, cl_labels, dist_vars, post_vars, orch_vars>>

NextClassifier == RunClassifier

SpecClassifier == InitClassifier /\ [][NextClassifier]_vars

(***************************************************************************)
(* main.rs: main and run.  run's steps are cut at its await points: the    *)
(* sleep, join_all and the fetch of the canonical block.                   *)
(***************************************************************************)
Alive == main_pc # "exited"

RunEnded == pc \in {"returned", "returned_err", "panicked", "cancelled"}

NoReport == [kind |-> "none"]

\* `labels`: a HashMap collected from (name, label); a later node of the same
\* name replaces an earlier one.
labels ==
    [n \in {nodes[i].name : i \in DOMAIN nodes} |->
        nodes[CHOOSE i \in DOMAIN nodes :
                /\ nodes[i].name = n
                /\ \A j \in DOMAIN nodes : nodes[j].name = n => j <= i].label]

Init ==
    /\ \E config \in Configs :
          nodes = config.nodes /\ post_endpoints = config.post_endpoints
    /\ OrchStart
    /\ DistIdle
    /\ ClIdle
    /\ PostIdle

\* The wall clock passes a slot boundary.
Tick ==
    /\ Alive
    /\ clock < MaxSlot
    /\ clock' = clock + 1
    /\ UNCHANGED <<dist_vars, cl_vars, post_vars, config_vars, main_vars, run_vars, handles, sink_vars>>

\* main: select! takes the sigint or the sigterm branch, stores the flag and
\* returns ExitCode::SUCCESS without awaiting run_handle.
Signal ==
    /\ main_pc = "select"
    /\ shutdown_signal' = TRUE
    /\ main_pc' = "returning"
    /\ exit_code' = "SUCCESS"
    /\ UNCHANGED <<dist_vars, cl_vars, post_vars, config_vars, clock, run_vars, handles, sink_vars>>

\* main: select! takes the run_handle branch: the spawned task returned
\* (run gave Ok) or panicked (run gave Err and was unwrapped, or run panicked).
RunHandleDone ==
    /\ main_pc = "select"
    /\ pc \in {"returned", "returned_err", "panicked"}
    /\ main_pc' = "returning"
    /\ exit_code' = IF pc = "returned" THEN "SUCCESS" ELSE "FAILURE"
    /\ UNCHANGED <<dist_vars, cl_vars, post_vars, config_vars, shutdown_signal, clock, run_vars,
                   handles, sink_vars>>

\* main has returned: the runtime is dropped and the process exits.  A task
\* runs on to its next await and is dropped there: run, when it stands at the
\* loop head, reads the flag main has stored and returns; anywhere else it is
\* cancelled where it waits.  The memory is gone.
ProcessExit ==
    /\ main_pc = "returning"
    /\ main_pc' = "exited"
    /\ pc' = IF RunEnded THEN pc
             ELSE IF pc = "loop_head" /\ shutdown_signal THEN "returned"
             ELSE "cancelled"
    /\ wake_at' = 0
    /\ handles' = <<>>
    /\ all_blocks' = <<>>
    /\ canonical_report' = NoReport
    /\ pairwise_report' = {}
    /\ sink_tasks' = {}
    /\ sink_result' = [outcome |-> "none"]
    /\ UNCHANGED <<dist_vars, cl_vars, post_vars, config_vars, shutdown_signal, exit_code, clock,
                   slot>>

\* Mutant: the loop head does not read the flag.
LoopHead_unchecked ==
    /\ Alive
    /\ pc = "loop_head"
    /\ pc' = "sleeping"
    /\ wake_at' = clock + 1
    /\ UNCHANGED <<dist_vars, cl_vars, post_vars, config_vars, main_vars, clock, slot, all_blocks,
                   canonical_report, pairwise_report, handles, sink_vars>>

\* run: `while !shutdown_signal.load(..)`, then duration_to_next_slot and the
\* start of the sleep; with the flag set, `Ok(())`.
LoopHead ==
    /\ Alive
    /\ pc = "loop_head"
    /\ IF shutdown_signal
       THEN pc' = "returned" /\ wake_at' = wake_at
       ELSE pc' = "sleeping" /\ wake_at' = clock + 1
    /\ UNCHANGED <<dist_vars, cl_vars, post_vars, config_vars, main_vars, clock, slot, all_blocks,
                   canonical_report, pairwise_report, handles, sink_vars>>

\* Mutant: the dispatch waits until no sink task is outstanding.
Dispatch_awaits_sinks ==
    /\ Alive
    /\ pc = "sleeping"
    /\ clock >= wake_at
    /\ sink_tasks = {}
    /\ slot' = clock
    /\ handles' = [i \in DOMAIN nodes |-> [state |-> "spawned"]]
    /\ canonical_report' = NoReport
    /\ pairwise_report' = {}
    /\ pc' = "join"
    /\ UNCHANGED <<dist_vars, cl_vars, post_vars, config_vars, main_vars, clock, wake_at, all_blocks,
                   sink_vars>>

\* Mutant: the slot is read without the sleep to the next slot boundary.
Dispatch_without_sleep ==
    /\ Alive
    /\ pc = "sleeping"
    /\ slot' = clock
    /\ handles' = [i \in DOMAIN nodes |-> [state |-> "spawned"]]
    /\ canonical_report' = NoReport
    /\ pairwise_report' = {}
    /\ pc' = "join"
    /\ UNCHANGED <<dist_vars, cl_vars, post_vars, config_vars, main_vars, clock, wake_at, all_blocks,
                   sink_vars>>

\* run: the sleep is over; `slot = slot_clock.now()`, and one task is spawned
\* per node.
Dispatch ==
    /\ Alive
    /\ pc = "sleeping"
    /\ clock >= wake_at
    /\ slot' = clock
    /\ handles' = [i \in DOMAIN nodes |-> [state |-> "spawned"]]
    /\ canonical_report' = NoReport
    /\ pairwise_report' = {}
    /\ pc' = "join"
    /\ UNCHANGED <<dist_vars, cl_vars, post_vars, config_vars, main_vars, clock, wake_at, all_blocks,
                   sink_vars>>

\* Mutant: the task sends its request without reading the clock again.
TaskStart_unchecked(i) ==
    /\ Alive
    /\ handles[i].state = "spawned"
    /\ handles' = [handles EXCEPT ![i] = [state |-> "requesting"]]
    /\ UNCHANGED <<dist_vars, cl_vars, post_vars, config_vars, main_vars, clock, run_vars, sink_vars>>

\* Node task i: it reads the clock again and gives up when the slot has passed;
\* otherwise it sends its request.
TaskStart(i) ==
    /\ Alive
    /\ handles[i].state = "spawned"
    /\ handles' = [handles EXCEPT ![i] =
                      IF clock # slot
                      THEN [state |-> "err", error |-> "too slow"]
                      ELSE [state |-> "requesting"]]
    /\ UNCHANGED <<dist_vars, cl_vars, post_vars, config_vars, main_vars, clock, run_vars, sink_vars>>

\* What get_block_with_timeout gives: a block, an error, or the error of the
\* 6-second timeout.
FetchResults ==
    {[state |-> "ok", block |-> b] : b \in DreamBlocks}
        \cup {[state |-> "err", error |-> "fetch"], [state |-> "err", error |-> "timed out"]}

\* Node task i: its request ends.
TaskFinish(i) ==
    /\ Alive
    /\ handles[i].state = "requesting"
    /\ \E result \in FetchResults : handles' = [handles EXCEPT ![i] = result]
    /\ UNCHANGED <<dist_vars, cl_vars, post_vars, config_vars, main_vars, clock, run_vars, sink_vars>>

\* Node task i panics (an unwrap of the clock, or the client library).
TaskPanic(i) ==
    /\ Alive
    /\ handles[i].state \in {"spawned", "requesting"}
    /\ handles' = [handles EXCEPT ![i] = [state |-> "panicked"]]
    /\ UNCHANGED <<dist_vars, cl_vars, post_vars, config_vars, main_vars, clock, run_vars, sink_vars>>

Joined == \A i \in DOMAIN handles : handles[i].state \in {"ok", "err", "panicked"}

\* slot_blocks after the loop over the results: a later node of the same name
\* replaces an earlier one.
SlotBlocksOf(hs) ==
    LET ok == {i \in DOMAIN hs : hs[i].state = "ok"}
    IN  [n \in {nodes[i].name : i \in ok} |->
            hs[CHOOSE i \in ok : /\ nodes[i].name = n
                                 /\ \A j \in ok : nodes[j].name = n => j <= i].block]

\* Mutant: nothing is pushed for a node that failed.
PostBlocksOf_skip_failed(hs) ==
    LET ok == SelectSeq([i \in DOMAIN hs |-> i], LAMBDA i : hs[i].state = "ok")
    IN  IF post_endpoints = <<>> THEN <<>>
        ELSE [k \in DOMAIN ok |-> {hs[ok[k]].block}]

\* post_blocks after the loop over the results: Some(block) or None per node,
\* an Option being a set of at most one element; nothing without endpoints.
PostBlocksOf(hs) ==
    IF post_endpoints = <<>> THEN <<>>
    ELSE [i \in DOMAIN hs |-> IF hs[i].state = "ok" THEN {hs[i].block} ELSE {}]

\* The tasks spawned for the post endpoints: each gets the names and labels of
\* the nodes and a clone of post_blocks.
SinkTasksFor(post_blocks) ==
    {[endpoint |-> e,
      slot |-> slot,
      names_and_labels |-> [i \in DOMAIN nodes |-> <<nodes[i].name, nodes[i].label>>],
      opt_blocks |-> post_blocks] : e \in DOMAIN post_endpoints}

Insert(map, key, value) ==
    [k \in DOMAIN map \cup {key} |-> IF k = key THEN value ELSE map[k]]

\* Mutant: the slot's blocks are stored whenever there are any.
Stored_partial(slot_blocks) ==
    IF DOMAIN slot_blocks # {}
    THEN Insert(all_blocks, slot, slot_blocks)
    ELSE all_blocks

\* all_blocks after `if slot_blocks.len() == nodes.len()`: the slot enters the
\* window, or its results are discarded.
Stored(slot_blocks) ==
    IF Cardinality(DOMAIN slot_blocks) = Len(nodes)
    THEN Insert(all_blocks, slot, slot_blocks)
    ELSE all_blocks

\* Mutant: a node's error ends run like a panic does.
Collect_errors_fatal ==
    /\ Alive
    /\ pc = "join"
    /\ Joined
    /\ IF \E i \in DOMAIN handles : handles[i].state # "ok"
       THEN pc' = "returned_err" /\ UNCHANGED <<sink_tasks, all_blocks>>
       ELSE /\ sink_tasks' = sink_tasks \cup SinkTasksFor(PostBlocksOf(handles))
            /\ all_blocks' = Stored(SlotBlocksOf(handles))
            /\ pc' = "canonical"
    /\ handles' = <<>>
    /\ UNCHANGED <<dist_vars, cl_vars, post_vars, config_vars, main_vars, clock, wake_at, slot,
                   canonical_report, pairwise_report, sink_result>>

\* Mutant: a panicked task counts as a failed node.
Collect_panic_tolerated ==
    /\ Alive
    /\ pc = "join"
    /\ Joined
    /\ sink_tasks' = sink_tasks \cup SinkTasksFor(PostBlocksOf(handles))
    /\ all_blocks' = Stored(SlotBlocksOf(handles))
    /\ pc' = "canonical"
    /\ handles' = <<>>
    /\ UNCHANGED <<dist_vars, cl_vars, post_vars, config_vars, main_vars, clock, wake_at, slot,
                   canonical_report, pairwise_report, sink_result>>

\* run: join_all has every result.  The loop over (result, node) returns
\* Err("Task panicked: ..") at a panicked task; otherwise the sink tasks are
\* spawned (none is awaited), the slot is stored or discarded, and the fetch
\* of the canonical block begins.
Collect ==
    /\ Alive
    /\ pc = "join"
    /\ Joined
    /\ IF \E i \in DOMAIN handles : handles[i].state = "panicked"
       THEN pc' = "returned_err" /\ UNCHANGED <<sink_tasks, all_blocks>>
       ELSE /\ sink_tasks' = sink_tasks \cup SinkTasksFor(PostBlocksOf(handles))
            /\ all_blocks' = Stored(SlotBlocksOf(handles))
            /\ pc' = "canonical"
    /\ handles' = <<>>
    /\ UNCHANGED <<dist_vars, cl_vars, post_vars, config_vars, main_vars, clock, wake_at, slot,
                   canonical_report, pairwise_report, sink_result>>

\* The maps name -> distance the canonical compare can compute.
DistancesTo(dream_blocks, block) ==
    {d \in [DOMAIN dream_blocks ->
               UNION {BlockDistance(dream_blocks[n], block) : n \in DOMAIN dream_blocks}] :
        \A n \in DOMAIN dream_blocks : d[n] \in BlockDistance(dream_blocks[n], block)}

\* What get_beacon_blocks can give: Ok(Some(block)), Ok(None) (a 404), Err.
CanonicalResults ==
    {[kind |-> "some", block |-> b] : b \in DreamBlocks} \cup {[kind |-> "none"], [kind |-> "err"]}

\* What the compare with the canonical block of prev_slot can print; the
\* classifier's panic is the report IndexPanic.
CanonicalReports(res, prev_slot) ==
    IF res.kind = "some" /\ prev_slot \in DOMAIN all_blocks
    THEN UNION {{IF output = IndexPanic
                 THEN [kind |-> "panic"]
                 ELSE [kind |-> "classified", slot |-> prev_slot,
                       distances |-> distances, output |-> output] :
                    output \in Classify(distances, labels)} :
                distances \in DistancesTo(all_blocks[prev_slot], res.block)}
    ELSE {[kind |-> IF res.kind = "some" THEN "no dream blocks"
                    ELSE IF res.kind = "none" THEN "no canonical block"
                    ELSE "error fetching canonical block",
           slot |-> prev_slot]}

\* Mutant: only a node paired with itself is skipped.
PairwiseDistances_both_orders ==
    IF slot \in DOMAIN all_blocks
    THEN LET blocks == all_blocks[slot]
         IN  UNION {{[name1 |-> p[1], name2 |-> p[2], distance |-> d] :
                        d \in BlockDistance(blocks[p[1]], blocks[p[2]])} :
                    p \in {q \in (DOMAIN blocks) \X (DOMAIN blocks) : ~(q[1] = q[2])}}
    ELSE {}

\* The distances among the blocks stored for the current slot, one per pair
\* name1 < name2.
PairwiseDistances ==
    IF slot \in DOMAIN all_blocks
    THEN LET blocks == all_blocks[slot]
         IN  UNION {{[name1 |-> p[1], name2 |-> p[2], distance |-> d] :
                        d \in BlockDistance(blocks[p[1]], blocks[p[2]])} :
                    p \in {q \in (DOMAIN blocks) \X (DOMAIN blocks) : ~(q[1] >= q[2])}}
    ELSE {}

\* Mutant: nothing is pruned.
Retained_keep_all == all_blocks

\* all_blocks.retain(stored_slot + NUM_SLOTS_IN_MEMORY >= slot)
Retained ==
    [s \in {t \in DOMAIN all_blocks : t + NUM_SLOTS_IN_MEMORY >= slot} |-> all_blocks[s]]

\* run: the fetch of the canonical block of the previous slot has ended.  The
\* block, when there is one and the window holds the previous slot, is
\* classified; then the pairwise compare of the current slot and the prune.
CanonicalCompare ==
    /\ Alive
    /\ pc = "canonical"
    /\ \E res \in CanonicalResults :
         \E report \in CanonicalReports(res, slot - 1) :
            IF report.kind = "panic"
            THEN /\ pc' = "panicked"
                 /\ canonical_report' = report
                 /\ UNCHANGED <<pairwise_report, all_blocks>>
            ELSE /\ canonical_report' = report
                 /\ pairwise_report' = PairwiseDistances
                 /\ all_blocks' = Retained
                 /\ pc' = "loop_head"
    /\ UNCHANGED <<dist_vars, cl_vars, post_vars, config_vars, main_vars, clock, wake_at, slot,
                   handles, sink_vars>>

(***************************************************************************)
(* post.rs: a spawned sink task runs post_blocks.  Its first check is       *)
(* modelled; what follows it ends in Ok or in an error.                    *)
(***************************************************************************)
PostBlocksOutcomes(names_and_labels, opt_blocks) ==
    IF Len(names_and_labels) # Len(opt_blocks)
    THEN {"logic error: mismatched blocks and nodes"}
    ELSE {"ok", "error", "panic"}

\* Mutant: a sink task that fails takes the other tasks of its slot with it.
SinkRun_failure_aborts(task) ==
    /\ Alive
    /\ task \in sink_tasks
    /\ \E outcome \in PostBlocksOutcomes(task.names_and_labels, task.opt_blocks) :
          /\ sink_result' = [outcome |-> outcome, endpoint |-> task.endpoint, slot |-> task.slot]
          /\ sink_tasks' = IF outcome = "ok"
                           THEN sink_tasks \ {task}
                           ELSE {t \in sink_tasks : t.slot # task.slot}
    /\ UNCHANGED <<dist_vars, cl_vars, post_vars, config_vars, main_vars, clock, run_vars, handles>>

\* A spawned sink task runs to its end: Ok, an error that is printed, or a
\* panic, which the runtime keeps inside the task (its JoinHandle is dropped).
SinkRun(task) ==
    /\ Alive
    /\ task \in sink_tasks
    /\ sink_tasks' = sink_tasks \ {task}
    /\ \E outcome \in PostBlocksOutcomes(task.names_and_labels, task.opt_blocks) :
          sink_result' = [outcome |-> outcome, endpoint |-> task.endpoint, slot |-> task.slot]
    /\ UNCHANGED <<dist_vars, cl_vars, post_vars, config_vars, main_vars, clock, run_vars, handles>>

Next ==
    \/ Tick
    \/ Signal
    \/ RunHandleDone
    \/ ProcessExit
    \/ LoopHead
    \/ Dispatch
    \/ \E i \in DOMAIN handles : TaskStart(i)
    \/ \E i \in DOMAIN handles : TaskFinish(i)
    \/ \E i \in DOMAIN handles : TaskPanic(i)
    \/ Collect
    \/ CanonicalCompare
    \/ \E task \in sink_tasks : SinkRun(task)

Spec == Init /\ [][Next]_vars

(***************************************************************************)
(* main.rs: the window over many slots.  One node; of an iteration only    *)
(* what touches all_blocks is kept: the slot read after the sleep, the     *)
(* store or discard of the slot's blocks, and the prune.                   *)
(***************************************************************************)
InitWindow ==
    /\ nodes = OneNode
    /\ post_endpoints = <<>>
    /\ OrchStart
    /\ DistIdle
    /\ ClIdle
    /\ PostIdle

\* run: the sleep ends in a later slot (slots can be skipped).
WindowDispatch ==
    /\ pc = "loop_head"
    /\ \E s \in slot + 1 .. MaxWindowSlot : slot' = s
    /\ pc' = "join"
    /\ UNCHANGED <<dist_vars, cl_vars, post_vars, config_vars, main_vars, clock, wake_at, all_blocks,
                   canonical_report, pairwise_report, handles, sink_vars>>

\* run: the node gave a block or failed; the slot is stored or discarded.
WindowCollect ==
    /\ pc = "join"
    /\ \E slot_blocks \in {<<>>} \cup {[n \in {nodes[1].name} |-> b] : b \in DreamBlocks} :
          all_blocks' = Stored(slot_blocks)
    /\ pc' = "canonical"
    /\ UNCHANGED <<dist_vars, cl_vars, post_vars, config_vars, main_vars, clock, wake_at, slot,
                   canonical_report, pairwise_report, handles, sink_vars>>

\* run: the prune at the end of the iteration.
WindowPrune ==
    /\ pc = "canonical"
    /\ all_blocks' = Retained
    /\ pc' = "loop_head"
    /\ UNCHANGED <<dist_vars, cl_vars, post_vars, config_vars, main_vars, clock, wake_at, slot,
                   canonical_report, pairwise_report, handles, sink_vars>>

NextWindow == WindowDispatch \/ WindowCollect \/ WindowPrune

SpecWindow == InitWindow /\ [][NextWindow]_vars

(***************************************************************************)
(* main.rs: the iterations of run over several slots.  One node, no post   *)
(* endpoint, no signal; the clock runs on while an iteration is under way. *)
(***************************************************************************)
InitIterations ==
    /\ nodes = OneNode
    /\ post_endpoints = <<>>
    /\ OrchStart
    /\ DistIdle
    /\ ClIdle
    /\ PostIdle

\* The wall clock passes a slot boundary.
IterationsTick ==
    /\ clock < MaxIterationSlot
    /\ clock' = clock + 1
    /\ UNCHANGED <<dist_vars, cl_vars, post_vars, config_vars, main_vars, run_vars, handles, sink_vars>>

NextIterations ==
    \/ IterationsTick
    \/ LoopHead
    \/ Dispatch
    \/ \E i \in DOMAIN handles : TaskStart(i)
    \/ \E i \in DOMAIN handles : TaskFinish(i)
    \/ \E i \in DOMAIN handles : TaskPanic(i)
    \/ Collect
    \/ CanonicalCompare

SpecIterations == InitIterations /\ [][NextIterations]_vars

(***************************************************************************)
(* node.rs: the request a node task sends for its block.  The node's       *)
(* configuration carries the flags the request could depend on.            *)
(***************************************************************************)
\* Node::get_block: the client method called, by the ssz flag.
get_block(config) ==
    IF config.ssz THEN "get_validator_blocks_modular_ssz" ELSE "get_validator_blocks_modular"

\* Node::get_block_v3: the client method called.  Only
\* get_block_v3_with_timeout calls it, and run does not call that.
get_block_v3(config) == "get_validator_blocks_v3_modular"

\* Node::get_block_with_timeout, the call of the node task: get_block under
\* a timeout of 6 seconds.
get_block_with_timeout(config, s) ==
    [method |-> get_block(config),
     slot |-> s,
     skip_randao_verification |-> config.skip_randao_verification,
     timeout_secs |-> 6]

InitEndpoint ==
    /\ \E v3 \in BOOLEAN, ssz \in BOOLEAN, skip \in BOOLEAN :
          nodes = <<[name |-> 1, label |-> "X", v3 |-> v3, ssz |-> ssz,
                     skip_randao_verification |-> skip]>>
    /\ post_endpoints = <<>>
    /\ OrchStart
    /\ DistIdle
    /\ ClIdle
    /\ PostIdle

\* run: a slot is read and the node's task is spawned.
EndpointDispatch ==
    /\ pc = "loop_head"
    /\ \E s \in 1 .. MaxSlot : slot' = s
    /\ handles' = [i \in DOMAIN nodes |-> [state |-> "spawned"]]
    /\ pc' = "join"
    /\ UNCHANGED <<dist_vars, cl_vars, post_vars, config_vars, main_vars, clock, wake_at, all_blocks,
                   canonical_report, pairwise_report, sink_vars>>

\* Node task: it sends its request.
EndpointRequest ==
    /\ pc = "join"
    /\ handles[1].state = "spawned"
    /\ handles' = <<[state |-> "requesting", request |-> get_block_with_timeout(nodes[1], slot)]>>
    /\ UNCHANGED <<dist_vars, cl_vars, post_vars, config_vars, main_vars, clock, run_vars, sink_vars>>

\* Node task: its request ends.
EndpointAnswer ==
    /\ pc = "join"
    /\ handles[1].state = "requesting"
    /\ \E result \in FetchResults :
          handles' = <<[state |-> result.state, request |-> handles[1].request,
                        result |-> result]>>
    /\ UNCHANGED <<dist_vars, cl_vars, post_vars, config_vars, main_vars, clock, run_vars, sink_vars>>

NextEndpoint == EndpointDispatch \/ EndpointRequest \/ EndpointAnswer

SpecEndpoint == InitEndpoint /\ [][NextEndpoint]_vars

(***************************************************************************)
(* main.rs: the path of a slot's blocks from the joined node tasks to the  *)
(* pairwise compare, for configurations of up to three nodes.  `handles`   *)
(* holds the results join_all gave and keeps them to the end of the        *)
(* iteration.                                                              *)
(***************************************************************************)
InitPairwise ==
    /\ nodes \in {OneNode, TwoNodes, TwoNodesOneName, ThreeNodes}
    /\ post_endpoints = <<>>
    /\ OrchStart
    /\ DistIdle
    /\ ClIdle
    /\ PostIdle

\* run: the next slot is read and every node task ends in a block or an error.
PairwiseJoin ==
    /\ pc = "loop_head"
    /\ slot < MaxPairwiseSlot
    /\ slot' = slot + 1
    /\ handles' \in [DOMAIN nodes -> FetchResults]
    /\ pairwise_report' = {}
    /\ pc' = "join"
    /\ UNCHANGED <<dist_vars, cl_vars, post_vars, config_vars, main_vars, clock, wake_at, all_blocks,
                   canonical_report, sink_vars>>

\* run: the loop over the results; the slot is stored or discarded.
PairwiseCollect ==
    /\ pc = "join"
    /\ all_blocks' = Stored(SlotBlocksOf(handles))
    /\ pc' = "canonical"
    /\ UNCHANGED <<dist_vars, cl_vars, post_vars, config_vars, main_vars, clock, wake_at, slot,
                   canonical_report, pairwise_report, handles, sink_vars>>

\* run: the pairwise compare of the current slot, then the prune.
PairwiseCompare ==
    /\ pc = "canonical"
    /\ pairwise_report' = PairwiseDistances
    /\ all_blocks' = Retained
    /\ pc' = "loop_head"
    /\ UNCHANGED <<dist_vars, cl_vars, post_vars, config_vars, main_vars, clock, wake_at, slot,
                   canonical_report, handles, sink_vars>>

NextPairwise == PairwiseJoin \/ PairwiseCollect \/ PairwiseCompare

SpecPairwise == InitPairwise /\ [][NextPairwise]_vars

(***************************************************************************)
(* post.rs: post_blocks as a function of its endpoint, its arguments and   *)
(* what the HTTP server and the file system answer.                        *)
(***************************************************************************)
\* The blocks drawn for post_blocks, which reads their parent_root only.
PostBlocks == {[parent_root |-> "p1"], [parent_root |-> "p2"]}

\* The configurations of an endpoint: results_dir is TRUE for Some(dir); the
\* name is the url or differs from it.
PostEndpointConfigs ==
    [name : {"sink"}, url : {"sink", "http://sink/"},
     require_all : BOOLEAN, require_same_parent : BOOLEAN, compare_rewards : BOOLEAN,
     extra_data : BOOLEAN, results_dir : BOOLEAN]

\* PostEndpoint::new: the endpoint built from its configuration.
PostEndpoint_new(config) ==
    [name |-> config.url,
     url |-> config.url,
     results_dir |-> config.results_dir,
     compare_rewards |-> config.compare_rewards,
     require_all |-> config.require_all,
     require_same_parent |-> config.require_same_parent,
     extra_data |-> config.extra_data]

PostEndpoints == {PostEndpoint_new(config) : config \in PostEndpointConfigs}

\* One element of the response array: result["attestation_rewards"]["total"]
\* .as_u64() is Some(total) or None.
ResponseValues == [total : {{}} \cup {{t} : t \in 0 .. MaxReward}]

\* What the server and the file system answer: how far the request gets
\* (send() fails, the status is not a success, the body is not a JSON array,
\* or it is one), the array, and the result (0: none) at which a directory
\* or a file cannot be written.  No configuration has more nodes than
\* TwoNodes.
PostEnvs ==
    [reply : {"send error", "bad status", "invalid JSON", "json"},
     response_json : SeqsUpTo(ResponseValues, Len(TwoNodes)),
     file_error_at : 0 .. Len(TwoNodes)]

\* The positions of the nodes that gave a block (filter_map with opt_block?).
PresentNodes(opt_blocks) ==
    SelectSeq([i \in DOMAIN opt_blocks |-> i], LAMBDA i : opt_blocks[i] # {})

\* Mutant: the preconditions are not checked.
PreconditionError_unchecked(self, blocks, total_nodes) == {}

\* The `if self.require_all` and `if self.require_same_parent` returns: the
\* error, if any.  all() of no block is true and does not read blocks[0].
PreconditionError(self, blocks, total_nodes) ==
    IF self.require_all /\ Len(blocks) # total_nodes
    THEN {"only got blocks"}
    ELSE IF /\ self.require_same_parent
            /\ ~(\A k \in DOMAIN blocks : blocks[k].parent_root = blocks[1].parent_root)
         THEN {"not all blocks build on the same parent"}
         ELSE {}

\* What the loop over the results has gathered.
NoResults == [max_reward |-> 0, max_reward_nodes |-> <<>>, rewards |-> <<>>, files |-> <<>>]

\* Mutant: a larger reward does not reset the list of nodes.
TrackReward_no_reset(acc, name, reward) ==
    [acc EXCEPT !.rewards = Append(@, <<name, reward>>),
                !.max_reward = IF reward > @ THEN reward ELSE @,
                !.max_reward_nodes = IF reward >= acc.max_reward THEN Append(@, name) ELSE @]

\* The body of `if self.compare_rewards` for one result.
TrackReward(acc, name, reward) ==
    [acc EXCEPT !.rewards = Append(@, <<name, reward>>),
                !.max_reward = IF reward > @ THEN reward ELSE @,
                !.max_reward_nodes =
                    IF reward > acc.max_reward THEN <<name>>
                    ELSE IF reward = acc.max_reward THEN Append(@, name)
                    ELSE @]

\* Mutant: a result whose file cannot be written is skipped.
RECURSIVE ResultsLoop_skips_failed_file(_, _, _, _, _, _, _, _)
ResultsLoop_skips_failed_file(self, names, node_labels, response_json, slot_, env, k, acc) ==
    IF k > Len(names) \/ k > Len(response_json)
    THEN [result |-> IF self.results_dir /\ env.file_error_at \in 1 .. k - 1
                     THEN "file error" ELSE "Ok",
          acc |-> acc]
    ELSE IF self.compare_rewards /\ response_json[k].total = {}
         THEN [result |-> "panic", acc |-> acc]
         ELSE LET tracked == IF self.compare_rewards
                             THEN TrackReward(acc, names[k], Expect(response_json[k].total))
                             ELSE acc
                  file == [label |-> node_labels[k], name |-> names[k], slot |-> slot_,
                           content |-> response_json[k]]
              IN  ResultsLoop_skips_failed_file(
                      self, names, node_labels, response_json, slot_, env, k + 1,
                      IF self.results_dir /\ env.file_error_at # k
                      THEN [tracked EXCEPT !.files = Append(@, file)]
                      ELSE tracked)

\* The loop over names, labels and response_json zipped, from result k on:
\* the unwrap of a missing total panics, a file error returns.
RECURSIVE ResultsLoop(_, _, _, _, _, _, _, _)
ResultsLoop(self, names, node_labels, response_json, slot_, env, k, acc) ==
    IF k > Len(names) \/ k > Len(response_json)
    THEN [result |-> "Ok", acc |-> acc]
    ELSE IF self.compare_rewards /\ response_json[k].total = {}
         THEN [result |-> "panic", acc |-> acc]
         ELSE LET tracked == IF self.compare_rewards
                             THEN TrackReward(acc, names[k], Expect(response_json[k].total))
                             ELSE acc
                  file == [label |-> node_labels[k], name |-> names[k], slot |-> slot_,
                           content |-> response_json[k]]
              IN  IF self.results_dir /\ env.file_error_at = k
                  THEN [result |-> "file error", acc |-> tracked]
                  ELSE ResultsLoop(self, names, node_labels, response_json, slot_, env, k + 1,
                                   IF self.results_dir
                                   THEN [tracked EXCEPT !.files = Append(@, file)]
                                   ELSE tracked)

\* Mutant: the length of the response array is not compared.
ResponseError_any_length(env, names) ==
    IF env.reply = "send error" THEN {"POST error"}
    ELSE IF env.reply = "bad status" THEN {"status"}
    ELSE IF env.reply = "invalid JSON" THEN {"invalid JSON"}
    ELSE {}

\* The returns between the request and the loop over the results: send()
\* failed, the status is not a success, the body is not a JSON array, the
\* array has not one element per name; the error, if any.
ResponseError(env, names) ==
    IF env.reply = "send error" THEN {"POST error"}
    ELSE IF env.reply = "bad status" THEN {"status"}
    ELSE IF env.reply = "invalid JSON" THEN {"invalid JSON"}
    ELSE IF Len(env.response_json) # Len(names) THEN {"bad response"}
    ELSE {}

\* What a call of post_blocks did: its result, whether the POST was sent and
\* with what body, the rewards printed, the files written and the summary
\* line (an Option).
PostOutcome(result, payload, acc, summary) ==
    [result |-> result, post_sent |-> payload # {}, payload |-> payload,
     rewards |-> acc.rewards, files |-> acc.files, summary |-> summary]

post_blocks(self, names_and_labels, opt_blocks, slot_, env) ==
    IF Len(names_and_labels) # Len(opt_blocks)
    THEN PostOutcome("logic error: mismatched blocks and nodes", {}, NoResults, {})
    ELSE LET total_nodes == Len(opt_blocks)
             present == PresentNodes(opt_blocks)
             names == [k \in DOMAIN present |-> names_and_labels[present[k]][1]]
             node_labels == [k \in DOMAIN present |-> names_and_labels[present[k]][2]]
             blocks == [k \in DOMAIN present |-> Expect(opt_blocks[present[k]])]
             error == PreconditionError(self, blocks, total_nodes)
             payload == IF self.extra_data
                        THEN {[names |-> names, labels |-> node_labels, blocks |-> blocks]}
                        ELSE {[blocks |-> blocks]}
         IN  IF error # {} THEN PostOutcome(Expect(error), {}, NoResults, {})
             ELSE IF ResponseError(env, names) # {}
                  THEN PostOutcome(Expect(ResponseError(env, names)), payload, NoResults, {})
                  ELSE LET loop == ResultsLoop(self, names, node_labels, env.response_json,
                                               slot_, env, 1, NoResults)
                       IN  PostOutcome(loop.result, payload, loop.acc,
                                       IF loop.result = "Ok" /\ self.compare_rewards
                                       THEN {loop.acc.max_reward_nodes} ELSE {})

\* The calls drawn: an endpoint, the names and labels of the nodes of a
\* configuration, and a block or none per entry (of any length up to two, so
\* that the first check has both outcomes).
PostCalls ==
    {[config |-> config, self |-> PostEndpoint_new(config),
      names_and_labels |-> [i \in DOMAIN ns |-> <<ns[i].name, ns[i].label>>],
      opt_blocks |-> opt_blocks, slot |-> 7] :
        config \in PostEndpointConfigs,
        ns \in {NoNodes, OneNode, TwoNodes, TwoNodesOneName},
        opt_blocks \in SeqsUpTo({{}} \cup {{b} : b \in PostBlocks}, Len(TwoNodes))}

\* The line the spawned sink task prints when post_blocks returns an error
\* (an Option).
SinkReport(endpoint, s, outcome) ==
    IF outcome.result \in {"Ok", "panic"} THEN {}
    ELSE {[sink |-> endpoint.name, slot |-> s, error |-> outcome.result]}

InitPost ==
    /\ \E call \in PostCalls : post_call = <<call>>
    /\ post_outcome = <<>>
    /\ DistIdle
    /\ ClIdle
    /\ OrchIdle

\* The spawned sink task: post_blocks, and the report of its error.
RunPostBlocks ==
    /\ post_outcome = <<>>
    /\ \E env \in PostEnvs :
          LET outcome == post_blocks(post_call[1].self, post_call[1].names_and_labels,
                                     post_call[1].opt_blocks, post_call[1].slot, env)
          IN  post_outcome' = <<outcome, env,
                                SinkReport(post_call[1].self, post_call[1].slot, outcome)>>
    /\ UNCHANGED <<post_call, dist_vars, cl_vars, orch_vars>>

NextPost == RunPostBlocks

SpecPost == InitPost /\ [][NextPost]_vars

(***************************************************************************)
(* Claims about the distance.                                              *)
(***************************************************************************)
\* C2: the attestation-list distance is symmetric: distance(x, y) equals
\* distance(y, x) for all attestation lists x and y.
C2_Symmetry == dist.done => dist.x_y = dist.y_x

\* C2 witness: two different lists sharing a bucket of different sizes, so that
\* one direction inserts on the left what the other inserts on the right.
C2_Witness ==
    /\ dist.done
    /\ Len(atts_x) = 2 /\ Len(atts_y) = 1
    /\ atts_x[1].data = atts_y[1].data /\ atts_x[2].data = atts_y[1].data
    /\ dist.x_y > INDEL_COST

\* C3: identity of indiscernibles: distance(x, x) = 0 for every list x, and
\* distance(x, y) > 0 for all lists x, y that differ in length, order,
\* AttestationData or aggregation bitfield, the bitfield's length included.
C3_IdentityOfIndiscernibles ==
    dist.done => /\ dist.x_x = 0
                 /\ (atts_x # atts_y => dist.x_y > 0)

\* C4: triangle inequality: distance(x, z) <= distance(x, y) + distance(y, z)
\* for all attestation lists x, y, z (of at most 128 attestations each).
C4_Triangle == dist.done => dist.x_z <= dist.x_y + dist.y_z

\* C4 witness: three different lists where the detour over y costs exactly as
\* much as the direct way, both legs being positive.
C4_Witness ==
    /\ dist.done
    /\ atts_x # atts_y /\ atts_y # atts_z /\ atts_x # atts_z
    /\ dist.x_y > 0 /\ dist.y_z > 0
    /\ dist.x_z = dist.x_y + dist.y_z

(***************************************************************************)
(* Claims about the classifier.                                            *)
(***************************************************************************)
Classified == cl_output # <<>> /\ cl_output # IndexPanic

\* C5: the decision rule: with the closest (d1, label1) and the second closest
\* (d2, label2), the outcome is "likely label1, two closest match" whenever
\* label1 = label2, whatever the distances; otherwise "significantly closer"
\* exactly when d2 >= d1 * 2 / 1; otherwise "too close to call"; exactly one
\* outcome is emitted per classification.
C5_DecisionRule ==
    Classified =>
        LET out == cl_output[1]
            d1 == out.closest.distance
            d2 == out.second_closest.distance
            same == cl_labels[out.closest.name] = cl_labels[out.second_closest.name]
        IN  /\ Len(cl_output) = 1
            /\ out.kind \in {"two_closest_match", "significantly_closer", "too_close_to_call"}
            /\ same => out.kind = "two_closest_match"
            /\ ~same => (out.kind = "significantly_closer" <=> d2 >= (d1 * 2) \div 1)
            /\ out.closest_label = cl_labels[out.closest.name]
            /\ out.second_closest_label = cl_labels[out.second_closest.name]

\* C5 witness: the two closest carry different labels at the same distance 0,
\* and the outcome is "significantly closer" (d2 = d1 * 2 = 0).
C5_Witness ==
    /\ Classified
    /\ cl_output[1].closest_label # cl_output[1].second_closest_label
    /\ cl_output[1].closest.distance = 0
    /\ cl_output[1].second_closest.distance = 0
    /\ cl_output[1].kind = "significantly_closer"

\* The entries of the map in (distance, name) order.
ByDistanceThenName ==
    CHOOSE sorted \in SortedByDistance(cl_distances) :
        \A i \in 1 .. Len(sorted) - 1 :
            sorted[i].distance = sorted[i + 1].distance => sorted[i].name < sorted[i + 1].name

\* C6: first and second are a function of the name -> distance map: first is
\* the entry of smallest distance, ties broken by the smallest name, second is
\* the next entry in (distance, name) order, and second = first when the map
\* has one entry.
C6_DeterministicOrder ==
    Classified =>
        /\ cl_output[1].closest = ByDistanceThenName[1]
        /\ cl_output[1].second_closest =
              IF Len(ByDistanceThenName) >= 2 THEN ByDistanceThenName[2]
              ELSE ByDistanceThenName[1]

(***************************************************************************)
(* Claims about the orchestrator.                                          *)
(***************************************************************************)
\* The step of run that leaves join_all with every result and no panic.
CollectStep == pc = "join" /\ pc' = "canonical"

AllOk(hs) == \A i \in DOMAIN hs : hs[i].state = "ok"

\* The sink tasks that carry the blocks of slot s.
TasksOfSlot(tasks, s) == {t \in tasks : t.slot = s}

\* A sink task that carries a block of one node and none of another.
PartialTask(t) ==
    /\ \E i \in DOMAIN t.opt_blocks : t.opt_blocks[i] = {}
    /\ \E i \in DOMAIN t.opt_blocks : t.opt_blocks[i] # {}

\* C1: a slot S becomes a key of the in-memory window only in the iteration
\* for S and only if every enabled node returned a block for S, and the entry
\* then holds a block per node; an iteration in which at least one node task
\* failed inserts nothing for its slot.
C1_WindowHoldsCompleteSlots ==
    [][/\ \A s \in DOMAIN all_blocks' \ DOMAIN all_blocks :
            /\ CollectStep
            /\ s = slot
            /\ AllOk(handles)
            /\ DOMAIN all_blocks'[s] = {nodes[i].name : i \in DOMAIN nodes}
            /\ Cardinality(DOMAIN all_blocks'[s]) = Len(nodes)
       /\ (CollectStep /\ ~AllOk(handles)) => all_blocks' = all_blocks
       /\ \A s \in DOMAIN all_blocks \cap DOMAIN all_blocks' :
            all_blocks'[s] = all_blocks[s]]_vars

\* C1 witness: the window holds an earlier slot, and the iteration for the
\* current slot, in which one of two nodes failed, has stored nothing.
C1_Witness ==
    /\ pc = "canonical"
    /\ DOMAIN all_blocks # {}
    /\ slot \notin DOMAIN all_blocks
    /\ \E t \in TasksOfSlot(sink_tasks, slot) : PartialTask(t)

\* C7: when a signal has set the shutdown flag while an iteration is in
\* flight (run waits in join_all or for the canonical block), the process does
\* not exit before that iteration has run its remaining phases.
C7_InFlightIterationFinishes ==
    [][(shutdown_signal /\ main_pc' = "exited") => pc \notin {"join", "canonical"}]_vars

\* C8: no dispatch of node requests begins after the shutdown flag was set,
\* in particular not when the flag is set during the sleep.
C8_NoDispatchAfterFlag ==
    [][(pc = "sleeping" /\ pc' = "join") => ~shutdown_signal]_vars

\* C8, as the code has it: the flag is read at the loop head only; once it is
\* set, run never passes the loop head again (it starts no further sleep),
\* while an iteration that already sleeps still dispatches.
C8_NoLoopHeadPassAfterFlag ==
    [][(pc = "loop_head" /\ shutdown_signal) => pc' \in {"loop_head", "returned"}]_vars

\* C8 witness: after an iteration, run has read the set flag at the loop head
\* and returned while the process is still there.
C8_Witness ==
    /\ shutdown_signal
    /\ pc = "returned"
    /\ main_pc = "returning"
    /\ slot > 0

\* C9: a node's fetch error, timeout or stale-slot abort changes no other
\* node task and does not end run: with every task joined and none panicked
\* the iteration spawns the sink tasks with the blocks of the nodes that
\* succeeded and goes on to the canonical fetch; a canonical fetch of 404 or
\* an error does not end run either: the iteration reaches the prune and the
\* loop head, from where run sleeps again unless the flag is set.
C9_ErrorsDoNotEndTheLoop ==
    [][/\ \A i \in DOMAIN handles :
            (/\ DOMAIN handles' = DOMAIN handles
             /\ handles[i].state # "err"
             /\ handles'[i].state = "err")
                => \A j \in DOMAIN handles \ {i} : handles'[j] = handles[j]
       /\ (pc = "join" /\ pc' # "join" /\ main_pc' # "exited"
              /\ \A i \in DOMAIN handles : handles[i].state # "panicked")
            => /\ pc' = "canonical"
               /\ \A t \in TasksOfSlot(sink_tasks', slot) :
                    \A i \in DOMAIN handles :
                        handles[i].state = "ok" => t.opt_blocks[i] = {handles[i].block}
               /\ post_endpoints # <<>> => TasksOfSlot(sink_tasks', slot) # {}
       /\ (pc = "canonical" /\ pc' # "canonical" /\ main_pc' # "exited")
            => \/ /\ pc' = "loop_head"
                  /\ all_blocks' = Retained
               \/ /\ pc' = "panicked"
                  /\ slot - 1 \in DOMAIN all_blocks
                  /\ DOMAIN all_blocks[slot - 1] = {}
       /\ (pc = "loop_head" /\ pc' # "loop_head" /\ ~shutdown_signal)
            => pc' = "sleeping" /\ wake_at' > slot]_vars

\* C9 witness: an iteration in which one of two nodes failed and the canonical
\* fetch gave an error has been through the prune, and run sleeps towards the
\* next slot while the process goes on.
C9_Witness ==
    /\ pc = "sleeping"
    /\ wake_at > slot
    /\ main_pc = "select"
    /\ canonical_report = [kind |-> "error fetching canonical block", slot |-> slot - 1]
    /\ \E t \in TasksOfSlot(sink_tasks, slot) : PartialTask(t)

\* C10: in an iteration that reaches the fan-out, each sink gets exactly one
\* task, whose lists have exactly one entry per enabled node, in node order,
\* the block present iff that node's fetch succeeded, also when the slot is
\* not stored in the window; tasks are spawned nowhere else, and no sink task
\* ends in the "mismatched blocks and nodes" error.
C10_OneTaskPerSinkOneEntryPerNode ==
    [][/\ CollectStep =>
            /\ sink_tasks' \ sink_tasks = TasksOfSlot(sink_tasks', slot)
            /\ TasksOfSlot(sink_tasks, slot) = {}
            /\ \A e \in DOMAIN post_endpoints :
                 LET ts == {t \in TasksOfSlot(sink_tasks', slot) : t.endpoint = e}
                 IN  /\ Cardinality(ts) = 1
                     /\ \A t \in ts :
                          /\ DOMAIN t.names_and_labels = DOMAIN nodes
                          /\ DOMAIN t.opt_blocks = DOMAIN nodes
                          /\ \A i \in DOMAIN nodes :
                               /\ t.names_and_labels[i] = <<nodes[i].name, nodes[i].label>>
                               /\ t.opt_blocks[i] =
                                    IF handles[i].state = "ok"
                                    THEN {handles[i].block} ELSE {}
       /\ ~CollectStep => sink_tasks' \subseteq sink_tasks
       /\ sink_result'.outcome # "logic error: mismatched blocks and nodes"]_vars

\* C10 witness: two sinks, the one node failed and the slot is not in the
\* window; one sink's task has run, the other's still carries the absent block.
C10_Witness ==
    /\ Len(post_endpoints) = 2
    /\ slot > 0
    /\ slot \notin DOMAIN all_blocks
    /\ sink_result.outcome = "ok" /\ sink_result.slot = slot
    /\ \E t \in TasksOfSlot(sink_tasks, slot) :
          t.endpoint # sink_result.endpoint /\ t.opt_blocks = <<{}>>

\* C11: a sink task that ends, in Ok, an error or a panic, removes itself
\* only: every other sink task was able to run beside it, stays spawned and
\* is not stopped, and the window, the position of run in the loop, the node
\* tasks and main are unchanged.
C11_SinkTasksIndependent ==
    [][\A task \in sink_tasks :
            (task \notin sink_tasks' /\ main_pc' # "exited")
                => /\ sink_tasks' = sink_tasks \ {task}
                   /\ \A t \in sink_tasks' : ENABLED SinkRun(t)
                   /\ UNCHANGED <<run_vars, handles, main_vars>>]_vars

\* C11 witness: the task of one sink for the current slot has failed, the
\* task of the other sink for the same slot is still to run, and run has gone
\* on to its next sleep.
C11_Witness ==
    /\ sink_result.outcome \in {"error", "panic"}
    /\ sink_result.slot = slot
    /\ \E t \in TasksOfSlot(sink_tasks, slot) : t.endpoint # sink_result.endpoint
    /\ pc = "sleeping"
    /\ wake_at > slot
    /\ main_pc = "select"

\* C12: run never waits for a sink task: whatever sink tasks are outstanding,
\* the canonical compare with the prune, the loop head and, once the slot
\* boundary is passed, the dispatch are enabled; and while the node requests
\* of a slot are out, every outstanding sink task is one of an earlier slot
\* (no sink task is ever of a slot later than the one run is in).
C12_RunNeverWaitsForSinks ==
    /\ (Alive /\ pc = "canonical") => ENABLED CanonicalCompare
    /\ (Alive /\ pc = "loop_head") => ENABLED LoopHead
    /\ (Alive /\ pc = "sleeping" /\ clock >= wake_at) => ENABLED Dispatch
    /\ \A t \in sink_tasks : t.slot <= slot /\ (pc = "join" => t.slot < slot)

\* C12 witness: the node requests of a slot are out while a sink task of an
\* earlier slot has still not run.
C12_Witness ==
    /\ pc = "join"
    /\ \E i \in DOMAIN handles : handles[i].state = "requesting"
    /\ \E t \in sink_tasks : t.slot < slot

\* The step of run that ends the canonical compare of an iteration.
CanonicalStep == pc = "canonical" /\ pc' # "canonical" /\ main_pc' # "exited"

\* The reports of the Ok(Some(..)) arm: the canonical block was fetched.
CanonicalFetched(report) == report.kind \in {"classified", "panic", "no dream blocks"}

\* C13: in the iteration for slot S a classification for S-1 is emitted iff
\* the canonical block of S-1 was fetched and the window has an entry for S-1;
\* it is emitted in the canonical step, after the collect step of S, and its
\* distances are those between the canonical block and each dream block
\* stored for S-1.
C13_ClassificationIffFetchedAndStored ==
    [][/\ CanonicalStep =>
            LET report == canonical_report'
            IN  /\ report.kind = "classified"
                      <=> (CanonicalFetched(report) /\ slot - 1 \in DOMAIN all_blocks)
                /\ report.kind = "classified" =>
                      /\ report.slot = slot - 1
                      /\ DOMAIN report.distances = DOMAIN all_blocks[slot - 1]
                      /\ \E block \in DreamBlocks :
                           \A n \in DOMAIN report.distances :
                              report.distances[n]
                                  \in BlockDistance(all_blocks[slot - 1][n], block)
       /\ (canonical_report'.kind = "classified" /\ canonical_report' # canonical_report)
            => CanonicalStep]_vars

\* The state after the prune of the iteration for `slot`.
AfterPrune == pc = "loop_head" /\ slot > 0

\* C14: after the prune of the iteration for slot S the window holds only
\* slots among the 8 most recent ones, S-7 .. S, hence at most 8 entries.
C14_WindowOfEightSlots ==
    AfterPrune =>
        /\ \A s \in DOMAIN all_blocks : slot - 7 <= s /\ s <= slot
        /\ Cardinality(DOMAIN all_blocks) <= 8

\* C14, as the code has it: after the prune of the iteration for slot S the
\* window holds only slots with stored_slot + 8 >= S, that is S-8 .. S, hence
\* at most 9 entries.
C14_WindowOfNineSlots ==
    AfterPrune =>
        /\ \A s \in DOMAIN all_blocks : slot - NUM_SLOTS_IN_MEMORY <= s /\ s <= slot
        /\ Cardinality(DOMAIN all_blocks) <= NUM_SLOTS_IN_MEMORY + 1

\* C14 witness: after a prune that dropped a slot the window holds 9 slots,
\* the oldest being S-8.
C14_Witness ==
    /\ AfterPrune
    /\ Cardinality(DOMAIN all_blocks) = NUM_SLOTS_IN_MEMORY + 1
    /\ slot - NUM_SLOTS_IN_MEMORY \in DOMAIN all_blocks
    /\ slot > NUM_SLOTS_IN_MEMORY + 1

(***************************************************************************)
(* Claims about the optimality of the distance.                            *)
(***************************************************************************)
\* The well-formed pairings of two lists: m[i] is the position in R of the
\* attestation paired with L[i], or 0 when L[i] is left as an insert; paired
\* attestations have equal data and no attestation of R is paired twice.
Pairings(L, R) ==
    {m \in [DOMAIN L -> {0} \cup DOMAIN R] :
        /\ \A i \in DOMAIN L : m[i] # 0 => L[i].data = R[m[i]].data
        /\ \A i, j \in DOMAIN L : (i # j /\ m[i] # 0) => m[i] # m[j]}

InsertCost(att) == Cardinality(att.aggregation_bits.bits) + 128

ModifyCost(L, R, i, j) ==
    (IF i >= j THEN i - j ELSE j - i)
        + Cardinality(L[i].aggregation_bits.bits \ R[j].aggregation_bits.bits)
        + Cardinality(R[j].aggregation_bits.bits \ L[i].aggregation_bits.bits)

\* The sum of the values of a function of finite domain.
RECURSIVE SumOf(_)
SumOf(f) ==
    IF DOMAIN f = {} THEN 0
    ELSE LET e == CHOOSE x \in DOMAIN f : TRUE
         IN  f[e] + SumOf([x \in DOMAIN f \ {e} |-> f[x]])

\* The total cost of the delta a pairing stands for.
PairingCost(L, R, m) ==
    SumOf([i \in DOMAIN L |->
              IF m[i] = 0 THEN InsertCost(L[i]) ELSE ModifyCost(L, R, i, m[i])])
        + SumOf([j \in {k \in DOMAIN R : \A i \in DOMAIN L : m[i] # k} |->
                    InsertCost(R[j])])

MinPairingCost(L, R) ==
    CHOOSE c \in {PairingCost(L, R, m) : m \in Pairings(L, R)} :
        \A m \in Pairings(L, R) : c <= PairingCost(L, R, m)

\* C15: distance(L, R) is the minimum total cost over all well-formed deltas
\* between L and R: over all ways to pair attestations of equal
\* AttestationData as Modify (|left - right| + bit distance) and to leave
\* every other attestation as an insert (set bits + 128); the sum of the
\* per-bucket optima is this global minimum.
C15_DistanceIsMinimumCost ==
    dist.done => dist.x_y = MinPairingCost(atts_x, atts_y)

\* C15 witness: a bucket with two attestations on the left and one on the
\* right, and an attestation of other data on the right: one modify and two
\* inserts.
C15_Witness ==
    /\ dist.done
    /\ Len(atts_x) = 2 /\ Len(atts_y) = 2
    /\ atts_x[1].data = atts_x[2].data
    /\ atts_y[1].data # atts_x[1].data
    /\ atts_y[2].data = atts_x[1].data
    /\ atts_x[1] # atts_x[2]
    /\ dist.x_y >= 2 * INDEL_COST
    /\ dist.x_y = MinPairingCost(atts_x, atts_y)

(***************************************************************************)
(* Claims about post_blocks.                                               *)
(***************************************************************************)
PostDone == post_outcome # <<>>

\* The positions of a call's blocks that are present.
PresentAt(call) == {i \in DOMAIN call.opt_blocks : call.opt_blocks[i] # {}}

RequireAllFails(call) ==
    call.self.require_all /\ \E i \in DOMAIN call.opt_blocks : call.opt_blocks[i] = {}

RequireSameParentFails(call) ==
    /\ call.self.require_same_parent
    /\ \E i, j \in PresentAt(call) : call.opt_blocks[i] # call.opt_blocks[j]

\* C16: a sink sends no HTTP POST and writes no result file when require_all
\* is set and a node's block is absent, or when require_same_parent is set
\* and two present blocks differ in parent_root: the call returns an error.
\* With require_same_parent and no present block the check passes: the call
\* fails only if require_all fails or the two vectors mismatch, and
\* otherwise sends the POST.
C16_NoPostWhenPreconditionFails ==
    PostDone =>
        LET call == post_call[1]
            outcome == post_outcome[1]
        IN  /\ (RequireAllFails(call) \/ RequireSameParentFails(call))
                => /\ ~outcome.post_sent
                   /\ outcome.files = <<>>
                   /\ outcome.result \notin {"Ok", "panic"}
            /\ (/\ call.self.require_same_parent
                /\ PresentAt(call) = {}
                /\ Len(call.names_and_labels) = Len(call.opt_blocks)
                /\ ~RequireAllFails(call))
                => outcome.post_sent

C16_Witness ==
    /\ PostDone
    /\ RequireSameParentFails(post_call[1])
    /\ ~RequireAllFails(post_call[1])
    /\ Len(post_call[1].names_and_labels) = Len(post_call[1].opt_blocks)
    /\ post_call[1].self.results_dir
    /\ post_outcome[1].result = "not all blocks build on the same parent"
    /\ ~post_outcome[1].post_sent
    /\ post_outcome[2].reply = "json"

\* The names of the posted nodes whose response carries the largest
\* attestation_rewards.total: response k belongs to the k-th present node.
MostProfitable(call, env) ==
    LET posted == PresentNodes(call.opt_blocks)
        total(k) == Expect(env.response_json[k].total)
    IN  {call.names_and_labels[posted[k]][1] :
            k \in {k \in DOMAIN posted : \A j \in DOMAIN posted : total(j) <= total(k)}}

\* C17: with compare_rewards, a call that returns Ok reports as most
\* profitable exactly the posted nodes whose attestation_rewards.total is
\* the maximum of the response (every posted node when all totals are 0),
\* and a call that reports anything reports exactly those.
C17_MostProfitableAreTheMaxima ==
    PostDone =>
        LET call == post_call[1]
            outcome == post_outcome[1]
            env == post_outcome[2]
        IN  /\ (call.self.compare_rewards /\ outcome.result = "Ok") => outcome.summary # {}
            /\ outcome.summary # {}
                => {Expect(outcome.summary)[k] : k \in DOMAIN Expect(outcome.summary)}
                       = MostProfitable(call, env)

C17_Witness ==
    /\ PostDone
    /\ post_call[1].self.compare_rewards
    /\ post_outcome[1].result = "Ok"
    /\ Len(post_outcome[2].response_json) = Len(TwoNodes)
    /\ post_outcome[2].response_json[1].total = {0}
    /\ post_outcome[2].response_json[2].total = {MaxReward}
    /\ post_call[1].names_and_labels[1][1] # post_call[1].names_and_labels[2][1]
    /\ post_outcome[1].summary = {<<post_call[1].names_and_labels[2][1]>>}

(***************************************************************************)
(* Claims about panics, exit codes and the stale-slot guard.               *)
(***************************************************************************)
\* C18: when run collects the results of a slot for which a node task has
\* panicked, it returns the error (which the spawned task unwraps) without
\* spawning a sink task and without storing the slot, and nothing is
\* spawned or stored afterwards.  When main then leaves select! through the
\* run_handle branch it returns FAILURE (exit code 1), and whenever it
\* leaves through a signal branch it returns SUCCESS (exit code 0).
C18_NodeTaskPanicEndsRun ==
    [][/\ (/\ pc = "join"
           /\ pc' # "join"
           /\ main_pc' # "exited"
           /\ \E i \in DOMAIN handles : handles[i].state = "panicked")
              => /\ pc' = "returned_err"
                 /\ UNCHANGED <<sink_tasks, all_blocks>>
       /\ (pc = "returned_err" /\ main_pc' # "exited")
              => /\ pc' = "returned_err"
                 /\ all_blocks' = all_blocks
                 /\ sink_tasks' \subseteq sink_tasks
       /\ (pc' = "returned_err" /\ main_pc' # "select" /\ ~shutdown_signal')
              => exit_code' = "FAILURE"
       /\ shutdown_signal' => exit_code' = "SUCCESS"]_vars

C18_Witness ==
    /\ pc = "returned_err"
    /\ main_pc = "returning"
    /\ exit_code = "FAILURE"
    /\ ~shutdown_signal
    /\ Len(nodes) = 2
    /\ post_endpoints # <<>>
    /\ slot \notin DOMAIN all_blocks
    /\ \A t \in sink_tasks : t.slot # slot

TooSlow == [state |-> "err", error |-> "too slow"]

\* C19: a node task that leaves its start with the clock off the dispatched
\* slot returns the error 'too slow' and never requests a block; a task
\* begins a block request only from its start and only with the clock at
\* the dispatched slot.  A node whose task was too slow counts as failed:
\* every sink task spawned for the slot gets None for it and the slot is not
\* stored.
C19_StaleSlotGuard ==
    [][/\ \A i \in DOMAIN handles :
            /\ (/\ i \in DOMAIN handles'
                /\ handles[i].state = "spawned"
                /\ handles'[i].state \notin {"spawned", "panicked"})
                   => handles'[i] = IF clock # slot THEN TooSlow ELSE [state |-> "requesting"]
            /\ (/\ i \in DOMAIN handles'
                /\ handles[i].state # "requesting"
                /\ handles'[i].state = "requesting")
                   => handles[i].state = "spawned" /\ clock = slot
            /\ (/\ i \in DOMAIN handles'
                /\ handles[i] = TooSlow)
                   => handles'[i] = TooSlow
            /\ (handles[i] = TooSlow /\ CollectStep)
                   => /\ all_blocks' = all_blocks
                      /\ \A t \in sink_tasks' \ sink_tasks : t.opt_blocks[i] = {}]_vars

C19_Witness ==
    /\ pc = "join"
    /\ clock > slot
    /\ \E i, j \in DOMAIN handles :
          /\ handles[i] = TooSlow
          /\ handles[j].state \in {"requesting", "ok"}

\* C20: when the window entry for slot S-1 holds no dream block (no node is
\* enabled), the canonical step of slot S emits no classification and does
\* not panic, and run goes on to the next loop head.
C20_EmptyEntrySkipsClassification ==
    [][(/\ CanonicalStep
        /\ slot - 1 \in DOMAIN all_blocks
        /\ DOMAIN all_blocks[slot - 1] = {})
            => /\ canonical_report'.kind \notin {"classified", "panic"}
               /\ pc' = "loop_head"]_vars

(***************************************************************************)
(* Claims about the pairwise compare.                                      *)
(***************************************************************************)
\* The iteration for the current slot has made its pairwise compare.
Compared == pc = "loop_head" /\ slot > 0

\* The distances emitted for the nodes named a and b, in either order.
EmittedFor(a, b) == {r \in pairwise_report : {r.name1, r.name2} = {a, b}}

\* The positions of the nodes whose task gave a block for the current slot.
Produced == {i \in DOMAIN handles : handles[i].state = "ok"}

\* C21, as stated: after the compare of slot S, for every pair of nodes of
\* different names that produced a block for S exactly one distance is
\* emitted, with name1 < name2, and none for a node paired with itself.
C21_OnePerPairOfProducers ==
    Compared =>
        /\ \A i, j \in Produced :
              nodes[i].name # nodes[j].name
                  => /\ Cardinality(EmittedFor(nodes[i].name, nodes[j].name)) = 1
                     /\ \A r \in EmittedFor(nodes[i].name, nodes[j].name) : r.name1 < r.name2
        /\ \A r \in pairwise_report : r.name1 # r.name2

\* C21, amended: the pairs are those of a slot that was stored.  When every
\* node produced a block and the names are distinct, exactly one distance is
\* emitted per pair of distinct nodes, for name1 < name2, it is the distance
\* of their two blocks, and nothing else is emitted; when a node failed or
\* two nodes share a name nothing is emitted.
C21_OnePerPairOfStoredSlot ==
    Compared =>
        LET stored == /\ Produced = DOMAIN nodes
                      /\ \A i, j \in DOMAIN nodes : i # j => nodes[i].name # nodes[j].name
        IN  /\ ~stored => pairwise_report = {}
            /\ stored =>
                /\ \A i, j \in DOMAIN nodes :
                      i # j =>
                        /\ Cardinality(EmittedFor(nodes[i].name, nodes[j].name)) = 1
                        /\ \A r \in EmittedFor(nodes[i].name, nodes[j].name) :
                              /\ r.name1 < r.name2
                              /\ r.distance \in BlockDistance(handles[i].block, handles[j].block)
                /\ \A r \in pairwise_report :
                      /\ r.name1 # r.name2
                      /\ \E i, j \in DOMAIN nodes : {r.name1, r.name2} = {nodes[i].name, nodes[j].name}

C21_Witness ==
    /\ Compared
    /\ nodes = ThreeNodes
    /\ Produced = DOMAIN nodes
    /\ Cardinality(pairwise_report) = 3
    /\ \E r \in pairwise_report : r.distance > 0

(***************************************************************************)
(* Claims about the delta lists.                                           *)
(***************************************************************************)
\* C22: the delta of x -> y, inverted and sorted again, is the delta
\* computed for y -> x.
C22_InvertedDeltaIsReverseDelta == dist.done => dist.inverted = dist.y_x

\* The bit positions set in exactly one of two bitfields.
SetInOne(bits1, bits2) ==
    {i \in 0 .. Max(bits1.len, bits2.len) - 1 : (i \in bits1.bits) # (i \in bits2.bits)}

\* C23: the distance of two attestations is defined iff their
\* AttestationData are equal, and is then the number of bit positions set in
\* exactly one of the two aggregation bitfields.
C23_AttestationDistance ==
    dist.done =>
        LET a == atts_x[1]
            b == atts_y[1]
        IN  /\ dist.a_b # {} <=> a.data = b.data
            /\ dist.a_b # {}
                  => dist.a_b = {Cardinality(SetInOne(a.aggregation_bits, b.aggregation_bits))}

C23_Witness ==
    /\ dist.done
    /\ atts_x[1].data = atts_y[1].data
    /\ atts_x[1].aggregation_bits.len # atts_y[1].aggregation_bits.len
    /\ atts_x[1].aggregation_bits.bits \ atts_y[1].aggregation_bits.bits # {}
    /\ atts_y[1].aggregation_bits.bits \ atts_x[1].aggregation_bits.bits # {}
    /\ dist.a_b = {2}

(***************************************************************************)
(* Claims about the sink's response and its result files.                  *)
(***************************************************************************)
\* The response to a call that was sent is a JSON array with one element per
\* POSTed block, under a success status.
GoodResponse(call, env) ==
    /\ env.reply = "json"
    /\ Len(env.response_json) = Cardinality(PresentAt(call))

\* C24: when the POST got no answer, a status that is not a success, a body
\* that is not a JSON array, or an array whose length is not the number of
\* POSTed blocks, post_blocks returns an error, writes no result file and
\* prints no reward and no summary.
C24_BadResponseFails ==
    (PostDone /\ post_outcome[1].post_sent /\ ~GoodResponse(post_call[1], post_outcome[2]))
        => /\ post_outcome[1].result \in {"POST error", "status", "invalid JSON", "bad response"}
           /\ post_outcome[1].files = <<>>
           /\ post_outcome[1].rewards = <<>>
           /\ post_outcome[1].summary = {}

C24_Witness ==
    /\ PostDone
    /\ post_outcome[1].post_sent
    /\ post_call[1].self.results_dir
    /\ post_call[1].self.compare_rewards
    /\ post_outcome[2].reply = "json"
    /\ post_outcome[2].file_error_at = 0
    /\ Cardinality(PresentAt(post_call[1])) = 2
    /\ Len(post_outcome[2].response_json) = 1
    /\ post_outcome[2].response_json[1].total # {}
    /\ post_outcome[1].result = "bad response"

\* The file of the k-th node that gave a block, as the claim places it.
FileOfEntry(call, env, k) ==
    LET node == call.names_and_labels[PresentNodes(call.opt_blocks)[k]]
    IN  [label |-> node[2], name |-> node[1], slot |-> call.slot,
         content |-> env.response_json[k]]

\* C25: with results_dir set, the files written by one call are, in the
\* order of writing, those of the first entries in the input order of the
\* nodes that gave a block, the i-th being <label_i>/<name_i>_<slot>.json
\* with the i-th response; a call that returns Ok has written every entry's
\* file, and when the file of entry i cannot be created or written the call
\* returns the error with exactly the files of the entries before i written.
\* Without results_dir nothing is written.
C25_FilesInInputOrder ==
    PostDone =>
        LET call == post_call[1]
            outcome == post_outcome[1]
            env == post_outcome[2]
        IN  /\ \A k \in DOMAIN outcome.files :
                  /\ k <= Cardinality(PresentAt(call))
                  /\ outcome.files[k] = FileOfEntry(call, env, k)
            /\ ~call.self.results_dir => outcome.files = <<>>
            /\ (call.self.results_dir /\ outcome.result = "Ok")
                  => Len(outcome.files) = Cardinality(PresentAt(call))
            /\ outcome.result = "file error"
                  => Len(outcome.files) = env.file_error_at - 1
            /\ (/\ call.self.results_dir
                /\ env.file_error_at \in 1 .. Cardinality(PresentAt(call))
                /\ outcome.post_sent
                /\ GoodResponse(call, env))
                  => /\ outcome.result \in {"file error", "panic"}
                     /\ Len(outcome.files) < env.file_error_at

C25_Witness ==
    /\ PostDone
    /\ post_call[1].self.results_dir
    /\ Cardinality(PresentAt(post_call[1])) = 2
    /\ Len(post_call[1].names_and_labels) = 2
    /\ post_call[1].names_and_labels[1] # post_call[1].names_and_labels[2]
    /\ post_outcome[2].file_error_at = 2
    /\ post_outcome[1].result = "file error"
    /\ Len(post_outcome[1].files) = 1

(***************************************************************************)
(* Claims about the order and the form of a delta list.                    *)
(***************************************************************************)
\* The key of a delta: (left, right, 0) for a Modify, (i, i, 0) for an
\* InsertLeft at i and (i, i, 1) for an InsertRight at i.
KeyOf(delta) ==
    IF delta.kind = "Modify" THEN <<delta.left, delta.right, 0>>
    ELSE <<delta.index, delta.index, IF delta.kind = "InsertLeft" THEN 0 ELSE 1>>

StrictlyAscending(deltas) ==
    \A k \in 1 .. Len(deltas) - 1 : KeyLess(KeyOf(deltas[k]), KeyOf(deltas[k + 1]))

Reversed(seq) == [k \in DOMAIN seq |-> seq[Len(seq) + 1 - k]]

\* C26: a returned delta list is strictly ascending in the key (so no two of
\* its deltas share a key), it holds the deltas of the buckets as they were
\* pushed, and sorting them from the opposite order of arrival gives the
\* same list.
C26_DeltasStrictlyAscending ==
    dist.done =>
        /\ StrictlyAscending(dist.x_y)
        /\ StrictlyAscending(dist.y_x)
        /\ StrictlyAscending(dist.inverted)
        /\ Len(dist.x_y) = Len(dist.unsorted)
        /\ {dist.x_y[k] : k \in DOMAIN dist.x_y} = {dist.unsorted[k] : k \in DOMAIN dist.unsorted}
        /\ sort_deltas(Reversed(dist.unsorted)) = dist.x_y

C26_Witness ==
    /\ dist.done
    /\ dist.unsorted # dist.x_y
    /\ \E k \in 1 .. Len(dist.x_y) - 1 :
          /\ dist.x_y[k].kind = "InsertLeft"
          /\ dist.x_y[k + 1].kind = "InsertRight"
          /\ dist.x_y[k].index = dist.x_y[k + 1].index
    /\ \E k \in DOMAIN dist.x_y : dist.x_y[k].kind = "Modify"

(***************************************************************************)
(* Claims about the node's request and the sink's name.                    *)
(***************************************************************************)
\* C27: the request a node task sends goes to the v3 endpoint when the
\* node's v3 flag is set and to the legacy endpoint when it is not.
C27_EndpointByV3Flag ==
    (pc = "join" /\ handles[1].state # "spawned")
        => (handles[1].request.method = "get_validator_blocks_v3_modular" <=> nodes[1].v3)

\* C28: the name a sink's endpoint carries is the name of its
\* configuration, and the report of a failed post names the sink by it.
C28_SinkReportedByConfiguredName ==
    /\ post_call # <<>> => post_call[1].self.name = post_call[1].config.name
    /\ (PostDone /\ post_outcome[3] # {})
          => Expect(post_outcome[3]).sink = post_call[1].config.name

(***************************************************************************)
(* Claims about the slots of successive iterations.                        *)
(***************************************************************************)
\* C29: the slot an iteration reads after its sleep is greater than the
\* slot of the iteration before it, so no slot is dispatched twice; and the
\* slot an iteration stores is not yet in the window.
C29_SlotsStrictlyIncrease ==
    [][/\ slot' # slot => slot' > slot
       /\ (pc = "sleeping" /\ pc' = "join") => slot' > slot
       /\ (pc = "join" /\ pc' = "canonical")
             => (slot \notin DOMAIN all_blocks /\ \A s \in DOMAIN all_blocks : s < slot)]_vars

\* Two slots are in the window, the later one stored beside the earlier, and
\* the iteration of the later one outlasted its slot: the sleep begun ends
\* past the slot that follows, which is skipped.
C29_Witness ==
    /\ pc = "sleeping"
    /\ slot \in DOMAIN all_blocks
    /\ \E s \in DOMAIN all_blocks : s < slot
    /\ wake_at > slot + 1

(***************************************************************************)
(* Claims about a delta list as a matching of its two lists.               *)
(***************************************************************************)
\* The deltas that account for index i of the left list, and of the right.
CoversLeft(deltas, i) ==
    {k \in DOMAIN deltas :
        \/ deltas[k].kind = "Modify" /\ deltas[k].left = i
        \/ deltas[k].kind = "InsertLeft" /\ deltas[k].index = i}

CoversRight(deltas, i) ==
    {k \in DOMAIN deltas :
        \/ deltas[k].kind = "Modify" /\ deltas[k].right = i
        \/ deltas[k].kind = "InsertRight" /\ deltas[k].index = i}

\* What one delta must carry, for the lists L and R (indices are 0-based).
DeltaWellFormed(delta, L, R) ==
    IF delta.kind = "Modify"
    THEN /\ delta.left \in 0 .. Len(L) - 1
         /\ delta.right \in 0 .. Len(R) - 1
         /\ L[delta.left + 1].data = R[delta.right + 1].data
         /\ delta.pos_distance + delta.right = delta.left
               \/ delta.pos_distance + delta.left = delta.right
         /\ {delta.bit_distance} = AttestationDistance(L[delta.left + 1], R[delta.right + 1])
    ELSE IF delta.kind = "InsertLeft"
         THEN /\ delta.index \in 0 .. Len(L) - 1
              /\ delta.num_set_bits = Cardinality(L[delta.index + 1].aggregation_bits.bits)
         ELSE /\ delta.kind = "InsertRight"
              /\ delta.index \in 0 .. Len(R) - 1
              /\ delta.num_set_bits = Cardinality(R[delta.index + 1].aggregation_bits.bits)

WellFormedMatching(deltas, L, R) ==
    /\ \A i \in 0 .. Len(L) - 1 : Cardinality(CoversLeft(deltas, i)) = 1
    /\ \A i \in 0 .. Len(R) - 1 : Cardinality(CoversRight(deltas, i)) = 1
    /\ \A k \in DOMAIN deltas : DeltaWellFormed(deltas[k], L, R)

\* C30: a delta list of L and R is a well-formed matching: every index of L
\* is the left of exactly one Modify or the index of exactly one InsertLeft,
\* every index of R the right of one Modify or the index of one InsertRight;
\* a Modify pairs attestations of equal data, with pos_distance the absolute
\* difference of its indices and bit_distance the distance of the two
\* attestations; an insert carries the number of set bits of its attestation.
C30_DeltaIsWellFormedMatching ==
    dist.done =>
        /\ WellFormedMatching(dist.x_y, atts_x, atts_y)
        /\ WellFormedMatching(dist.y_x, atts_y, atts_x)

C30_Witness ==
    /\ dist.done
    /\ \E k \in DOMAIN dist.x_y :
          /\ dist.x_y[k].kind = "Modify"
          /\ dist.x_y[k].pos_distance > 0
          /\ dist.x_y[k].bit_distance > 0
    /\ \E k \in DOMAIN dist.x_y :
          dist.x_y[k].kind = "InsertLeft" /\ dist.x_y[k].num_set_bits > 0
    /\ \E k \in DOMAIN dist.x_y :
          dist.x_y[k].kind = "InsertRight" /\ dist.x_y[k].num_set_bits > 0

(***************************************************************************)
(* Claims about the names in the window and the classifier's labels.       *)
(***************************************************************************)
EnabledNames == {nodes[i].name : i \in DOMAIN nodes}

SharedName == \E i, j \in DOMAIN nodes : i # j /\ nodes[i].name = nodes[j].name

\* C31: the keys of every entry of the window are the names of the enabled
\* nodes, each of them a key of `labels`; the two names a classification
\* looks up are keys of `labels` and the labels it prints are theirs; with
\* two nodes of one name the window stays empty.
C31_WindowKeysAreNodeNames ==
    /\ \A s \in DOMAIN all_blocks :
          /\ DOMAIN all_blocks[s] = EnabledNames
          /\ DOMAIN all_blocks[s] \subseteq DOMAIN labels
    /\ canonical_report.kind = "classified" =>
          LET line == canonical_report.output[1]
          IN  /\ line.closest.name \in DOMAIN labels
              /\ line.second_closest.name \in DOMAIN labels
              /\ line.closest_label = labels[line.closest.name]
              /\ line.second_closest_label = labels[line.second_closest.name]
    /\ SharedName => all_blocks = <<>>

\* Two nodes of different names and labels: the window holds a slot, and the
\* canonical block of that slot has been classified.
C31_Witness ==
    /\ Len(nodes) = 2
    /\ ~SharedName
    /\ canonical_report.kind = "classified"
    /\ canonical_report.slot \in DOMAIN all_blocks
    /\ canonical_report.output[1].closest.name # canonical_report.output[1].second_closest.name
    /\ canonical_report.output[1].closest_label # canonical_report.output[1].second_closest_label

\* C32: when the closest distance is 0 and the two closest nodes carry
\* different labels, the classifier prints "significantly closer" with the
\* label of the closest node, whatever the second distance is, 0 included.
C32_ZeroDistanceIsSignificantlyCloser ==
    (/\ Classified
     /\ cl_output[1].closest.distance = 0
     /\ cl_labels[cl_output[1].closest.name] # cl_labels[cl_output[1].second_closest.name])
        => /\ Len(cl_output) = 1
           /\ cl_output[1].kind = "significantly_closer"
           /\ cl_output[1].closest_label = cl_labels[cl_output[1].closest.name]

\* Three nodes: two of different labels tie at distance 0, the third is
\* further away; the outcome is "significantly closer".
C32_Witness ==
    /\ Classified
    /\ Cardinality(DOMAIN cl_distances) = 3
    /\ \E n \in DOMAIN cl_distances : cl_distances[n] > 0
    /\ cl_output[1].closest.distance = 0
    /\ cl_output[1].second_closest.distance = 0
    /\ cl_output[1].closest.name # cl_output[1].second_closest.name
    /\ cl_output[1].closest_label # cl_output[1].second_closest_label
    /\ cl_output[1].kind = "significantly_closer"
====
